---- MODULE Spec2Model ----
(***************************************************************************)
(* utility-stats: the temperature cache (TempDataManager over a weather    *)
(* client with an SQLite response cache), the date range generator, the    *)
(* sliding-window smoother (calc_temp_series) and the incremental simple   *)
(* regression it feeds.                                                    *)
(*                                                                         *)
(* A date is its day number in the proleptic Gregorian calendar (day 1 is  *)
(* 0001-01-01), the number chrono and time compute date differences from.  *)
(* f32 and f64 values are IEEE 754 binary floating point values, and every *)
(* operation on them rounds as the hardware does.                          *)
(***************************************************************************)
EXTENDS Integers, Sequences, FiniteSets, TLC

(***************************************************************************)
(* Bounds of the model.                                                    *)
(***************************************************************************)
\* the cache machine looks up the dates FirstDate .. FirstDate + MaxDate; the
\* last of them is in the future, the one before it is today
MaxDate == 3
\* process runs (construction of client and manager) over one cache store
MaxRuns == 2

(***************************************************************************)
(* Natural numbers of any size: the sequence of their digits to the base   *)
(* 2^15, least significant first, without leading zero digits (<<>> is 0). *)
(* The significands of f64 values and their products do not fit the        *)
(* integers of the model checker.                                          *)
(***************************************************************************)
LimbBits == 15

LimbBase == 2 ^ LimbBits

Abs(a) == IF a < 0 THEN -a ELSE a

Sign(a) == IF a < 0 THEN -1 ELSE IF a > 0 THEN 1 ELSE 0

RECURSIVE BigOf(_)
\* the natural number n
BigOf(n) == IF n = 0 THEN <<>> ELSE <<n % LimbBase>> \o BigOf(n \div LimbBase)

RECURSIVE BigTrim(_)
BigTrim(a) ==
    IF a = <<>> THEN a
    ELSE IF a[Len(a)] = 0 THEN BigTrim(SubSeq(a, 1, Len(a) - 1))
    ELSE a

Limb(a, i) == IF i <= Len(a) THEN a[i] ELSE 0

RECURSIVE LimbLen(_)
LimbLen(x) == IF x = 0 THEN 0 ELSE 1 + LimbLen(x \div 2)

\* the number of binary digits of a
BigLen(a) == IF a = <<>> THEN 0 ELSE LimbBits * (Len(a) - 1) + LimbLen(a[Len(a)])

RECURSIVE BigLessAt(_, _, _)
BigLessAt(a, b, i) ==
    IF i = 0 THEN FALSE
    ELSE IF a[i] # b[i] THEN a[i] < b[i]
    ELSE BigLessAt(a, b, i - 1)

\* a < b
BigLess(a, b) == IF Len(a) # Len(b) THEN Len(a) < Len(b) ELSE BigLessAt(a, b, Len(a))

RECURSIVE BigAddFrom(_, _, _, _)
BigAddFrom(a, b, i, c) ==
    IF i > Len(a) /\ i > Len(b) THEN (IF c = 0 THEN <<>> ELSE <<c>>)
    ELSE LET s == Limb(a, i) + Limb(b, i) + c
         IN  <<s % LimbBase>> \o BigAddFrom(a, b, i + 1, s \div LimbBase)

BigAdd(a, b) == BigAddFrom(a, b, 1, 0)

RECURSIVE BigSubFrom(_, _, _, _)
BigSubFrom(a, b, i, c) ==
    IF i > Len(a) THEN <<>>
    ELSE LET s == a[i] - Limb(b, i) - c
         IN  <<IF s < 0 THEN s + LimbBase ELSE s>>
                 \o BigSubFrom(a, b, i + 1, IF s < 0 THEN 1 ELSE 0)

\* a - b, for a >= b
BigSub(a, b) == BigTrim(BigSubFrom(a, b, 1, 0))

RECURSIVE BigScaleFrom(_, _, _, _)
BigScaleFrom(a, k, i, c) ==
    IF i > Len(a) THEN (IF c = 0 THEN <<>> ELSE <<c>>)
    ELSE LET s == a[i] * k + c
         IN  <<s % LimbBase>> \o BigScaleFrom(a, k, i + 1, s \div LimbBase)

\* a * k + c for one digit k and a carry c below the base
BigScale(a, k, c) == IF k = 0 THEN BigOf(c) ELSE BigScaleFrom(a, k, 1, c)

RECURSIVE BigMul(_, _)
BigMul(a, b) ==
    IF a = <<>> \/ b = <<>> THEN <<>>
    ELSE LET rest == BigMul(a, Tail(b))
         IN  BigAdd(BigScale(a, b[1], 0), IF rest = <<>> THEN <<>> ELSE <<0>> \o rest)

\* a * 2^n
BigShl(a, n) ==
    IF a = <<>> THEN <<>>
    ELSE [i \in 1 .. n \div LimbBits |-> 0] \o BigScale(a, 2 ^ (n % LimbBits), 0)

\* a \div 2^n
BigShr(a, n) ==
    LET q == n \div LimbBits
        r == n % LimbBits
    IN  IF q >= Len(a) THEN <<>>
        ELSE BigTrim([i \in 1 .. Len(a) - q |->
                        (a[q + i] \div 2 ^ r)
                            + (Limb(a, q + i + 1) % 2 ^ r) * 2 ^ (LimbBits - r)])

\* the binary digit i of a, counted from 0
BigBit(a, i) == (Limb(a, i \div LimbBits + 1) \div 2 ^ (i % LimbBits)) % 2

\* the n lowest binary digits of a are zero
BigLowZero(a, n) ==
    /\ \A i \in 1 .. n \div LimbBits : Limb(a, i) = 0
    /\ Limb(a, n \div LimbBits + 1) % 2 ^ (n % LimbBits) = 0

RECURSIVE LimbTrailing(_)
LimbTrailing(x) == IF x % 2 = 1 THEN 0 ELSE 1 + LimbTrailing(x \div 2)

RECURSIVE BigTrailingFrom(_, _)
BigTrailingFrom(a, i) ==
    IF a[i] = 0 THEN LimbBits + BigTrailingFrom(a, i + 1) ELSE LimbTrailing(a[i])

\* the number of zero binary digits a # 0 ends with
BigTrailing(a) == BigTrailingFrom(a, 1)

RECURSIVE BigShortDivFrom(_, _, _, _, _)
\* division by one digit d, from digit i of a down, q the digits found so far
BigShortDivFrom(a, d, i, rem, q) ==
    IF i = 0 THEN [q |-> q, r |-> BigOf(rem)]
    ELSE BigShortDivFrom(a, d, i - 1, (rem * LimbBase + a[i]) % d,
                         <<(rem * LimbBase + a[i]) \div d>> \o q)

RECURSIVE BigDigit(_, _, _)
\* the greatest digit q <= guess with b * q <= t
BigDigit(t, b, guess) ==
    IF BigLess(t, BigScale(b, guess, 0)) THEN BigDigit(t, b, guess - 1) ELSE guess

\* the first two digits of t, counted from digit n, by the first digit of b
BigGuess(t, b, n) == (Limb(t, n + 1) * LimbBase + Limb(t, n)) \div b[n]

\* the digit of the quotient of t by b, b * LimbBase > t
BigQuotientDigit(t, b) ==
    BigDigit(t, b, IF BigGuess(t, b, Len(b)) >= LimbBase
                   THEN LimbBase - 1
                   ELSE BigGuess(t, b, Len(b)))

RECURSIVE BigLongDivFrom(_, _, _, _, _)
\* long division to the base 2^15, for b of two digits or more whose first
\* digit is 2^14 or more: each digit of the quotient is guessed from the first
\* digits of the remainder and of b, at most 2 too high
BigLongDivFrom(a, b, i, rem, q) ==
    IF i = 0 THEN [q |-> q, r |-> rem]
    ELSE LET t == BigTrim(<<a[i]>> \o rem)
             digit == BigQuotientDigit(t, b)
         IN  BigLongDivFrom(a, b, i - 1, BigSub(t, BigScale(b, digit, 0)),
                            <<digit>> \o q)

\* the quotient and the remainder s of a division scaled by 2^z
BigUnscale(s, z) == [q |-> BigTrim(s.q), r |-> BigShr(s.r, z)]

BigLongDiv(a, b, z) == BigUnscale(BigLongDivFrom(a, b, Len(a), <<>>, <<>>), z)

\* quotient and remainder of a by b # 0
BigDivMod(a, b) ==
    IF Len(b) = 1
    THEN BigUnscale(BigShortDivFrom(a, b[1], Len(a), 0, <<>>), 0)
    ELSE BigLongDiv(BigShl(a, LimbBits - LimbLen(b[Len(b)])),
                    BigShl(b, LimbBits - LimbLen(b[Len(b)])),
                    LimbBits - LimbLen(b[Len(b)]))

(***************************************************************************)
(* Floating point values.  [k |-> "num", s, m, e] is s * m * 2^e with the  *)
(* sign s (1 or -1), m = <<>> and e = 0 for the two zeros and m odd        *)
(* otherwise; [k |-> "nan"]; [k |-> "inf", s].  Every operation rounds its *)
(* exact result to the format it is made in, to nearest, ties to even, as  *)
(* IEEE 754 does.  An f32 is an f64 too: the widening cast changes nothing.*)
(***************************************************************************)
\* binary32: 24 digits, least subnormal 2^-149, all finite values below 2^128
F32 == [p |-> 24, emin |-> -149, top |-> 128]

\* binary64: 53 digits, least subnormal 2^-1074, all finite values below 2^1024
F64 == [p |-> 53, emin |-> -1074, top |-> 1024]

NaN == [k |-> "nan", s |-> 1, m |-> <<>>, e |-> 0]

Inf(s) == [k |-> "inf", s |-> s, m |-> <<>>, e |-> 0]

Zero(s) == [k |-> "num", s |-> s, m |-> <<>>, e |-> 0]

IsNaN(a) == a.k = "nan"

IsNum(a) == a.k = "num"

IsZero(a) == a.k = "num" /\ a.m = <<>>

\* s * m * 2^e, m # 0, with its z trailing zero digits moved into the exponent
Normal(s, m, e, z) == [k |-> "num", s |-> s, m |-> BigShr(m, z), e |-> e + z]

Finite(s, m, e) == Normal(s, m, e, BigTrailing(m))

\* s * m * 2^e for m of at most f.p digits: an infinity beyond the finite values
Pack(f, s, m, e) ==
    IF m = <<>> THEN Zero(s)
    ELSE IF e + BigLen(m) > f.top THEN Inf(s)
    ELSE Finite(s, m, e)

\* q, or the next integer: to nearest, ties to even
BigRoundUp(q, half, rest) ==
    IF half /\ (rest \/ BigBit(q, 0) = 1) THEN BigAdd(q, <<1>>) ELSE q

\* (m + x) / 2^d to the nearest integer, d > 0
BigRoundShr(m, d, sticky) ==
    BigRoundUp(BigShr(m, d), BigBit(m, d - 1) = 1, sticky \/ ~BigLowZero(m, d - 1))

\* the exponent of the last digit format f keeps of len digits that end at 2^e
LastDigit(f, e, len) == IF e + len - f.p > f.emin THEN e + len - f.p ELSE f.emin

RoundAt(f, s, m, e, sticky, t) ==
    Pack(f, s, IF t <= e THEN m ELSE BigRoundShr(m, t - e, sticky),
         IF t <= e THEN e ELSE t)

\* the value of format f nearest to s * (m + x) * 2^e, where 0 < x < 1 if
\* sticky and x = 0 if not
Round(f, s, m, e, sticky) ==
    IF m = <<>> THEN Zero(s)
    ELSE RoundAt(f, s, m, e, sticky, LastDigit(f, e, BigLen(m)))

\* an integer as a float of format f (`as f64`, `as f32`, f32::from)
FromInt(f, a) == Round(f, IF a < 0 THEN -1 ELSE 1, BigOf(Abs(a)), 0, FALSE)

\* an integer that every format holds exactly
Num(a) == FromInt(F64, a)

\* `as f32` of an f64 for f = F32
Cast(f, a) == IF a.k = "num" THEN Round(f, a.s, a.m, a.e, FALSE) ELSE a

FNeg(a) == IF a.k = "nan" THEN NaN ELSE [a EXCEPT !.s = -a.s]

FAbs(a) == IF a.k = "nan" THEN NaN ELSE [a EXCEPT !.s = 1]

\* the exponent of the first digit of the number a # 0, and one
Top(a) == a.e + BigLen(a.m)

\* |a| < |b| for numbers a and b
MagLess(a, b) ==
    IF b.m = <<>> THEN FALSE
    ELSE IF a.m = <<>> THEN TRUE
    ELSE IF Top(a) # Top(b) THEN Top(a) < Top(b)
    ELSE IF a.e < b.e THEN BigLess(a.m, BigShl(b.m, b.e - a.e))
    ELSE BigLess(BigShl(a.m, a.e - b.e), b.m)

\* -1, 0 or 1 as a is below, at or above zero (a not NaN)
SignOf(a) == IF IsZero(a) THEN 0 ELSE a.s

\* a < b on floats: false when either side is NaN
FLt(a, b) ==
    IF a.k = "nan" \/ b.k = "nan" THEN FALSE
    ELSE IF SignOf(a) # SignOf(b) THEN SignOf(a) < SignOf(b)
    ELSE IF SignOf(a) = 0 THEN FALSE
    ELSE IF a.k = "inf" \/ b.k = "inf"
    THEN IF a.k = b.k THEN FALSE
         ELSE IF a.k = "inf" THEN a.s = -1
         ELSE b.s = 1
    ELSE MagLess(IF a.s = 1 THEN a ELSE b, IF a.s = 1 THEN b ELSE a)

\* a == b on floats: NaN equals nothing, the two zeros are equal
FEq(a, b) ==
    IF a.k = "nan" \/ b.k = "nan" THEN FALSE
    ELSE IF IsZero(a) /\ IsZero(b) THEN TRUE
    ELSE a = b

\* the number s * (m + x) * 2^e before it is rounded
Exact(s, m, e, sticky) == [s |-> s, m |-> m, e |-> e, sticky |-> sticky]

RoundExact(f, x) == Round(f, x.s, x.m, x.e, x.sticky)

\* a + b for numbers a # 0 and b # 0 with |b| < 2^(a.e - f.p - 2): b only
\* tells on which side of a the sum lies
SumFar(f, a, b) ==
    Exact(a.s,
          IF a.s = b.s THEN BigShl(a.m, f.p + 2) ELSE BigSub(BigShl(a.m, f.p + 2), <<1>>),
          a.e - f.p - 2, TRUE)

\* a + b for x = |a| / 2^e and y = |b| / 2^e; +0 for a = -b
SumAligned(a, b, x, y, e) ==
    IF a.s = b.s THEN Exact(a.s, BigAdd(x, y), e, FALSE)
    ELSE IF BigLess(x, y) THEN Exact(b.s, BigSub(y, x), e, FALSE)
    ELSE Exact(IF x = y THEN 1 ELSE a.s, BigSub(x, y), e, FALSE)

SumNear(a, b, e) == SumAligned(a, b, BigShl(a.m, a.e - e), BigShl(b.m, b.e - e), e)

\* a + b for numbers a and b, not both zero
Sum(f, a, b) ==
    IF a.m = <<>> THEN Exact(b.s, b.m, b.e, FALSE)
    ELSE IF b.m = <<>> THEN Exact(a.s, a.m, a.e, FALSE)
    ELSE IF Top(b) <= a.e - f.p - 2 THEN SumFar(f, a, b)
    ELSE IF Top(a) <= b.e - f.p - 2 THEN SumFar(f, b, a)
    ELSE SumNear(a, b, IF a.e < b.e THEN a.e ELSE b.e)

\* a + b in format f
FAdd(f, a, b) ==
    IF a.k = "nan" \/ b.k = "nan" THEN NaN
    ELSE IF a.k = "inf" /\ b.k = "inf" THEN (IF a.s = b.s THEN a ELSE NaN)
    ELSE IF a.k = "inf" THEN a
    ELSE IF b.k = "inf" THEN b
    ELSE IF a.m = <<>> /\ b.m = <<>> THEN Zero(IF a.s = -1 /\ b.s = -1 THEN -1 ELSE 1)
    ELSE RoundExact(f, Sum(f, a, b))

\* a - b in format f
FSub(f, a, b) == FAdd(f, a, FNeg(b))

\* a * b in format f
FMul(f, a, b) ==
    IF a.k = "nan" \/ b.k = "nan" THEN NaN
    ELSE IF a.k = "inf" \/ b.k = "inf"
    THEN (IF IsZero(a) \/ IsZero(b) THEN NaN ELSE Inf(a.s * b.s))
    ELSE Round(f, a.s * b.s, BigMul(a.m, b.m), a.e + b.e, FALSE)

\* the digits the dividend a is moved up by, for a quotient of f.p + 2 digits
\* or more
DivShift(f, a, b) ==
    IF f.p + 2 + BigLen(b.m) - BigLen(a.m) > 0
    THEN f.p + 2 + BigLen(b.m) - BigLen(a.m)
    ELSE 0

\* the quotient d.q and the remainder d.r of |a| * 2^k by |b|, rounded
Quotient(f, s, d, e) == Round(f, s, d.q, e, d.r # <<>>)

FDivBy(f, a, b, k) ==
    Quotient(f, a.s * b.s, BigDivMod(BigShl(a.m, k), b.m), a.e - b.e - k)

\* a / b in format f; IEEE division: 0/0 is NaN, x/0 is an infinity, nothing
\* traps
FDiv(f, a, b) ==
    IF a.k = "nan" \/ b.k = "nan" THEN NaN
    ELSE IF a.k = "inf" THEN (IF b.k = "inf" THEN NaN ELSE Inf(a.s * b.s))
    ELSE IF b.k = "inf" THEN Zero(a.s * b.s)
    ELSE IF b.m = <<>> THEN (IF a.m = <<>> THEN NaN ELSE Inf(a.s * b.s))
    ELSE IF a.m = <<>> THEN Zero(a.s * b.s)
    ELSE FDivBy(f, a, b, DivShift(f, a, b))

\* Rust integer division truncates toward zero
TruncDiv(a, b) == Sign(a) * Sign(b) * (Abs(a) \div Abs(b))

(***************************************************************************)
(* State.                                                                  *)
(***************************************************************************)
VARIABLES
    \* --- the temperature cache machine ---
    weather,              \* what each provider's archive holds for each date
    today,                \* OffsetDateTime::now_utc().date()
    avg_call,             \* get_avg_temp in progress: selector, dates to visit, temps
    cache_db,             \* the SQLite tables, one per provider: key -> blob
    cache,                \* TempDataManager.cache: date -> Option<Temp>
    request_count,        \* DarkSkyClient.request_count
    status,               \* "running", or "aborted" after a panic
    runs,                 \* processes started so far over this store
    apiCalls,             \* history: calls of get_from_api per client and date
    apiDone,              \* history: those of them that returned a response
    histCalls,            \* history: client.get_history calls made by this manager
    returned,             \* history: results this manager's get_temp returned per date
    last,                 \* history: the last operation and what it did
    \* --- date_range ---
    start_date,           \* argument
    end_date,             \* argument
    range_i,              \* the loop variable i
    range_dates,          \* the Vec dates
    range_pc,             \* "idle", "loop" or "done"
    \* --- SimpleRegression, on its own and inside calc_temp_series ---
    regression,           \* the SimpleRegression
    points,               \* history: the (x, y) added to it, in order
    predicted,            \* history: the last predict call, [x, y]
    \* --- calc_temp_series ---
    series_data,          \* argument data: Vec<Measurement>
    num_days,             \* argument: u8
    series_pc,            \* "idle", "start", "next", "lower", "upper", "done", "panic"
    base_date,
    lower_init,
    measurement,          \* position of the for loop in data (1-based)
    lower_bound,
    upper_bound,
    scan_i,               \* the index i of the two while loops (0-based)
    dates,                \* the Vec dates
    amounts,              \* the Vec amounts
    fed,                  \* history: per output, the indices added to the regression
    \* --- one client asked for one past date ---
    provider,             \* the client: DarkSky, NWS, VisualCrossing or OpenMeteo
    provider_stations,    \* NwsClient.stations
    provider_answer,      \* what its API answers for the date
    provider_table,       \* its cache table
    provider_lookup,      \* history: the last get_history, as a Lookup
    provider_lookups,     \* history: the number of get_history calls made
    \* --- get_key along a run of calendar days ---
    key_date,             \* the Date, as [year, month, day]
    key_pc,               \* "idle", "key" or "next"
    key_walk,             \* history: the dates keyed so far, with their keys
    \* --- a meter file read and plotted ---
    file_rows,            \* the rows of the CSV file: [date, value]
    meter_pc,             \* "idle", "file", "err", "loaded" or "plotted"
    records,              \* Measurements.data as from_file returned it
    plot_dates,           \* calc_measurement_series: the Vec dates
    plot_amounts,         \* calc_measurement_series: the Vec amounts
    \* --- a DarkSky client making many requests ---
    limit_count,          \* DarkSkyClient.request_count
    limit_table,          \* its cache table
    limit_status,         \* "idle", "running", or "aborted" after a panic
    limit_last,           \* history: the last get_history, as a Lookup
    limit_sent,           \* history: the HTTP requests sent
    \* --- graph_all up to the call of calc_temp_series ---
    electric_data,        \* argument: the dates of the electric readings
    gas_data,             \* argument: the dates of the gas readings
    loess_days,           \* argument: u8
    graph_pc,             \* "idle", "collect", "temps", "series" or "panic"
    measurement_dates,    \* the Vec measurement_dates
    graph_i,              \* the dates of the range filter_map has taken
    daily_temp_data,      \* the Vec daily_temp_data: (date, Temp)
    \* --- two clients on one cache store ---
    race_pc,              \* per client: "ready", "read", "fetch", "write" or "panic"
    race_date,            \* per client: the date of its get_history
    race_resp,            \* per client: the response get_from_api returned
    race_table,           \* the table the clients share
    race_lookups,         \* per client: get_history calls begun
    race_calls,           \* history: per date, the live calls that returned
    race_panic,           \* history: per client, what it panicked on
    race_temp             \* history: per client, the last Option<Temp> returned

cacheVars == <<weather, today, avg_call, cache_db, cache, request_count,
               status, runs, apiCalls, apiDone, histCalls, returned, last>>

rangeVars == <<start_date, end_date, range_i, range_dates, range_pc>>

regVars == <<regression, points, predicted>>

seriesVars == <<series_data, num_days, series_pc, base_date, lower_init, measurement,
                lower_bound, upper_bound, scan_i, dates, amounts, fed>>

providerVars == <<provider, provider_stations, provider_answer, provider_table,
                  provider_lookup, provider_lookups>>

keyVars == <<key_date, key_pc, key_walk>>

meterVars == <<file_rows, meter_pc, records, plot_dates, plot_amounts>>

limitVars == <<limit_count, limit_table, limit_status, limit_last, limit_sent>>

graphVars == <<electric_data, gas_data, loess_days, graph_pc, measurement_dates,
               graph_i, daily_temp_data>>

raceVars == <<race_pc, race_date, race_resp, race_table, race_lookups, race_calls,
              race_panic, race_temp>>

vars == <<cacheVars, rangeVars, regVars, seriesVars, providerVars, keyVars,
         meterVars, limitVars, graphVars, raceVars>>

(***************************************************************************)
(* Values of the cache machine.                                            *)
(***************************************************************************)
\* the day number of 1970-01-01, the epoch of get_key
EpochDay == 719163

\* 2024-01-01
FirstDate == EpochDay + 19723

Dates == FirstDate .. FirstDate + MaxDate

\* the providers that hold an archive of the dates
Clients == {"darksky", "visual_crossing"}

None == [some |-> FALSE]

\* Temp { min, mean, max }
Temp(mn, mean, mx) == [some |-> TRUE, min |-> mn, mean |-> mean, max |-> mx]

\* a whole number of degrees as the f32 of a response
Deg(n) == FromInt(F32, n)

\* Option<f32> temperature of a DarkSky hourly data point
NoTemperature == [some |-> FALSE, v |-> Zero(1)]

Temperature(v) == [some |-> TRUE, v |-> v]

\* DarkSkyResponse, reduced to the field get_history reads: hourly, which is
\* absent, empty, or a block of data points
DarkSky(present, data) == [client |-> "darksky", present |-> present, data |-> data]

DarkSkyResponses ==
    << DarkSky(TRUE, <<Temperature(Deg(10)), Temperature(Deg(20))>>),
       DarkSky(FALSE, <<>>),
       DarkSky(TRUE, <<Temperature(Deg(20)), NoTemperature, Temperature(Deg(12)),
                       Temperature(Deg(11))>>),
       DarkSky(TRUE, <<>>) >>

\* Value { mint, temp, maxt } of a VisualCrossing location
VCValue == [mint |-> Deg(12), temp |-> Deg(17), maxt |-> Deg(22)]

\* VisualCrossingResponse, reduced to locations.get(my_location): the location
\* is absent, or present with its values
VisualCrossing(present, data) ==
    [client |-> "visual_crossing", present |-> present, data |-> data]

VisualCrossingResponses ==
    << VisualCrossing(TRUE, <<VCValue>>),
       VisualCrossing(TRUE, <<VCValue, VCValue>>),
       VisualCrossing(FALSE, <<>>),
       VisualCrossing(TRUE, <<>>) >>

Responses(c) == IF c = "darksky" THEN DarkSkyResponses ELSE VisualCrossingResponses

\* The archives the providers can hold: the history of a past date does not
\* change, so a provider answers a date with the same response every time.
\* An archive lays the responses above over the dates, starting at any of them.
Archive(c, k) ==
    [d \in Dates |->
        Responses(c)[((d - FirstDate + k) % Len(Responses(c))) + 1]]

Archives ==
    {[c \in Clients |-> Archive(c, k)] : k \in 0 .. Len(DarkSkyResponses) - 1}

\* what a live HTTP call can come back with: a transport error / non-OK status /
\* unparsable body, or the parsed 200 response
ApiFailure == [ok |-> FALSE]

ApiOutcomes(c, date) == {ApiFailure, [ok |-> TRUE, resp |-> weather[c][date]]}

(***************************************************************************)
(* The response cache of a client (ClientCacheConnection; DarkSkyClient,   *)
(* NwsClient and the older VisualCrossingClient carry the same code).      *)
(***************************************************************************)
\* get_key that counts whole weeks
get_key_whole_weeks(date) == (date - EpochDay) \div 7

\* get_key: whole days between the date and 1970-01-01
get_key(date) == date - EpochDay

\* write_blob: MessagePack-serialize, then gzip
write_blob(response) == [gzip |-> TRUE, msgpack |-> TRUE, payload |-> response]

\* read_blob: gunzip, then deserialize; either step panics on a bad blob
read_blob(raw) ==
    IF ~raw.gzip THEN [panic |-> TRUE, msg |-> "Unable to decompress data"]
    ELSE IF ~raw.msgpack THEN [panic |-> TRUE, msg |-> "Unable to deserialize data"]
    ELSE [panic |-> FALSE, response |-> raw.payload]

\* read_data that takes a blob it cannot read for a miss
read_data_miss_on_bad_blob(table, date) ==
    IF get_key(date) \in DOMAIN table
    THEN LET r == read_blob(table[get_key(date)])
         IN  IF r.panic THEN [panic |-> FALSE, some |-> FALSE]
             ELSE [panic |-> FALSE, some |-> TRUE, response |-> r.response]
    ELSE [panic |-> FALSE, some |-> FALSE]

\* read_data: SELECT response WHERE date = key; the first row, through read_blob
read_data(table, date) ==
    IF get_key(date) \in DOMAIN table
    THEN LET r == read_blob(table[get_key(date)])
         IN  IF r.panic THEN [panic |-> TRUE, some |-> FALSE]
             ELSE [panic |-> FALSE, some |-> TRUE, response |-> r.response]
    ELSE [panic |-> FALSE, some |-> FALSE]

\* write_data that replaces the table by the new row
write_data_truncating(table, date, response) ==
    [panic |-> FALSE, table |-> (get_key(date) :> write_blob(response))]

\* write_data: INSERT INTO table(date, response); date is the PRIMARY KEY, so
\* inserting an existing key fails and the caller panics
write_data(table, date, response) ==
    IF get_key(date) \in DOMAIN table
    THEN [panic |-> TRUE, table |-> table]
    ELSE [panic |-> FALSE,
          table |-> (get_key(date) :> write_blob(response)) @@ table]

(***************************************************************************)
(* The clients.                                                            *)
(***************************************************************************)
\* DarkSkyClient::get_from_api panics once request_count reaches this
RequestLimit == 1000

\* get_from_api that answers a failed call with an empty response
get_from_api_empty_on_failure(c, rc, api) ==
    LET n == IF c = "darksky" THEN rc + 1 ELSE rc
        empty == IF c = "open_meteo"
                 THEN [client |-> c, present |-> TRUE,
                       data |-> [temperature_2m_min |-> <<>>,
                                 temperature_2m_max |-> <<>>,
                                 temperature_2m_mean |-> <<>>]]
                 ELSE [client |-> c, present |-> FALSE, data |-> <<>>]
    IN  IF c = "darksky" /\ n >= RequestLimit
        THEN [panic |-> TRUE, http |-> FALSE, request_count |-> n]
        ELSE IF ~api.ok
        THEN [panic |-> FALSE, http |-> TRUE, request_count |-> n, response |-> empty]
        ELSE [panic |-> FALSE, http |-> TRUE, request_count |-> n,
              response |-> api.resp]

\* get_from_api: the live HTTP call.  api is what the network and the server
\* answer if the call is made.  DarkSky counts its requests first.
get_from_api(c, rc, api) ==
    LET n == IF c = "darksky" THEN rc + 1 ELSE rc
    IN  IF c = "darksky" /\ n >= RequestLimit
        THEN [panic |-> TRUE, http |-> FALSE, request_count |-> n]
        ELSE IF ~api.ok
        THEN [panic |-> TRUE, http |-> TRUE, request_count |-> n]
        ELSE [panic |-> FALSE, http |-> TRUE, request_count |-> n,
              response |-> api.resp]

\* f32::MAX, (2^24 - 1) * 2^104; f32::MIN is its negation
F32Max == Finite(1, BigOf(16777215), 104)

\* the loop with the comparison of the minimum turned around
RECURSIVE temp_loop_min_reversed(_, _, _, _, _, _)
temp_loop_min_reversed(temps, idx, min, max, sum, count) ==
    IF idx > Len(temps)
    THEN IF count > 0
         THEN Temp(min, FDiv(F32, sum, FromInt(F32, count)), max)
         ELSE None
    ELSE LET temp == temps[idx]
         IN  temp_loop_min_reversed(temps, idx + 1,
                       IF FLt(min, temp) THEN temp ELSE min,
                       IF FLt(max, temp) THEN temp ELSE max,
                       FAdd(F32, sum, temp), count + 1)

\* for temp in temps { min, max, sum, count }, all f32 but the count, then
\* the Temp with the mean sum / count as f32
RECURSIVE temp_loop(_, _, _, _, _, _)
temp_loop(temps, idx, min, max, sum, count) ==
    IF idx > Len(temps)
    THEN IF count > 0
         THEN Temp(min, FDiv(F32, sum, FromInt(F32, count)), max)
         ELSE None
    ELSE LET temp == temps[idx]
         IN  temp_loop(temps, idx + 1,
                       IF FLt(temp, min) THEN temp ELSE min,
                       IF FLt(max, temp) THEN temp ELSE max,
                       FAdd(F32, sum, temp), count + 1)

\* DarkSky: the Temp of a response, from the hourly points that carry a temperature
darksky_temp(data) ==
    IF data.present
    THEN LET with == SelectSeq(data.data, LAMBDA dp : dp.some)
             temps == [j \in 1 .. Len(with) |-> with[j].v]
         IN  IF temps # <<>>
             THEN [panic |-> FALSE,
                   temp |-> temp_loop(temps, 1, F32Max, FNeg(F32Max), Zero(1), 0)]
             ELSE [panic |-> FALSE, temp |-> None]
    ELSE [panic |-> FALSE, temp |-> None]

\* VisualCrossing: the Temp of a response, from the one value of my_location
visual_crossing_temp(data) ==
    IF data.present
    THEN IF Len(data.data) > 1 THEN [panic |-> TRUE, temp |-> None]
         ELSE IF Len(data.data) = 0 THEN [panic |-> TRUE, temp |-> None]
         ELSE [panic |-> FALSE,
               temp |-> Temp(data.data[1].mint, data.data[1].temp, data.data[1].maxt)]
    ELSE [panic |-> FALSE, temp |-> None]

\* NWS: a feature's temperature in Fahrenheit, (value * 9f32 / 5f32) + 32f32;
\* the unit must be unit:degC
nws_fahrenheit(f) ==
    FAdd(F32, FDiv(F32, FMul(F32, f.value, FromInt(F32, 9)), FromInt(F32, 5)),
         FromInt(F32, 32))

RECURSIVE nws_loop(_, _, _, _, _, _)
\* NWS: for temp in temps { min, max, sum, count }, then the Temp
nws_loop(temps, idx, min, max, sum, count) ==
    IF idx > Len(temps)
    THEN IF count > 0
         THEN Temp(min, FDiv(F32, sum, FromInt(F32, count)), max)
         ELSE None
    ELSE LET temp == temps[idx]
         IN  nws_loop(temps, idx + 1,
                      IF FLt(temp, min) THEN temp ELSE min,
                      IF FLt(max, temp) THEN temp ELSE max,
                      FAdd(F32, sum, temp), count + 1)

\* NWS: the Temp of a response, from its features
nws_temp(data) ==
    IF \E j \in 1 .. Len(data.data) : data.data[j].unit_code # "unit:degC"
    THEN [panic |-> TRUE, temp |-> None]
    ELSE IF data.data # <<>>
    THEN [panic |-> FALSE,
          temp |-> nws_loop([j \in 1 .. Len(data.data) |-> nws_fahrenheit(data.data[j])],
                            1, F32Max, FNeg(F32Max), Zero(1), 0)]
    ELSE [panic |-> FALSE, temp |-> None]

\* OpenMeteo: the Temp of a response, from the first element of the daily
\* arrays; indexing an empty array panics
open_meteo_temp(data) ==
    IF Len(data.data.temperature_2m_min) = 0 THEN [panic |-> TRUE, temp |-> None]
    ELSE IF Len(data.data.temperature_2m_max) = 0 THEN [panic |-> TRUE, temp |-> None]
    ELSE IF Len(data.data.temperature_2m_mean) = 0 THEN [panic |-> TRUE, temp |-> None]
    ELSE [panic |-> FALSE,
          temp |-> Temp(data.data.temperature_2m_min[1],
                        data.data.temperature_2m_mean[1],
                        data.data.temperature_2m_max[1])]

response_temp(c, data) ==
    IF c = "darksky" THEN darksky_temp(data)
    ELSE IF c = "nws" THEN nws_temp(data)
    ELSE IF c = "open_meteo" THEN open_meteo_temp(data)
    ELSE visual_crossing_temp(data)

\* what a lookup did: panic or not, the Temp it returned, the table and the
\* request count it left, whether get_from_api was called and whether it
\* returned a response
Lookup(panic, temp, table, rc, called, answered) ==
    [panic |-> panic, temp |-> temp, table |-> table, request_count |-> rc,
     called |-> called, answered |-> answered]

\* the lookup that found its response in the cache: its Temp t
Cached(t, table, rc) == Lookup(t.panic, t.temp, table, rc, FALSE, FALSE)

\* the lookup that fetched its response: the write w of the row, then its Temp t
Fetched(w, t, rc) ==
    Lookup(w.panic \/ t.panic, IF w.panic THEN None ELSE t.temp, w.table, rc, TRUE, TRUE)

\* get_history from the answer live of get_from_api on
get_history_live(c, table, date, live) ==
    IF live.panic
    THEN Lookup(TRUE, None, table, live.request_count, TRUE, FALSE)
    ELSE Fetched(write_data(table, date, live.response),
                 response_temp(c, live.response), live.request_count)

\* get_history from the answer cached of read_data on
get_history_read(c, table, rc, date, api, cached) ==
    IF cached.panic THEN Lookup(TRUE, None, table, rc, FALSE, FALSE)
    ELSE IF cached.some THEN Cached(response_temp(c, cached.response), table, rc)
    ELSE get_history_live(c, table, date, get_from_api(c, rc, api))

\* get_history that never reads the cache: every lookup goes to the API
get_history_refetch(c, table, rc, now, date, api) ==
    IF date - now >= 0 THEN Lookup(TRUE, None, table, rc, FALSE, FALSE)
    ELSE get_history_live(c, table, date, get_from_api(c, rc, api))

\* get_history that rejects the future only: today's date is looked up
get_history_today_allowed(c, table, rc, now, date, api) ==
    IF date - now > 0 THEN Lookup(TRUE, None, table, rc, FALSE, FALSE)
    ELSE get_history_read(c, table, rc, date, api, read_data(table, date))

\* WeatherClient::get_history of client c on its table, at day now
get_history(c, table, rc, now, date, api) ==
    IF date - now = 0 THEN Lookup(TRUE, None, table, rc, FALSE, FALSE)
    ELSE IF date - now > 0 THEN Lookup(TRUE, None, table, rc, FALSE, FALSE)
    ELSE get_history_read(c, table, rc, date, api, read_data(table, date))

(***************************************************************************)
(* TempDataManager.                                                        *)
(***************************************************************************)
\* the client of the manager: client: DarkSkyClient
Client == "darksky"

\* no get_avg_temp call is in progress
NoAvgCall == [pc |-> "idle", selector |-> "min", dates |-> <<>>, temps |-> <<>>]

\* the f32 a get_avg_temp call returned, or none
NoAvg == [some |-> FALSE]

\* fetch_data: client.get_history(date), and the Temp of the hourly
\* temperatures of the response
fetch_data(date, api) ==
    get_history(Client, cache_db[Client], request_count, today, date, api)

\* get_temp on a miss: the Temp of fetch_data is inserted, unless it panicked
get_temp_miss(date, temp) ==
    [hit |-> FALSE, fetched |-> temp,
     cache |-> IF temp.panic THEN cache ELSE (date :> temp.temp) @@ cache]

\* a miss that inserts only a date that has a Temp
get_temp_miss_none_uncached(date, temp) ==
    [hit |-> FALSE, fetched |-> temp,
     cache |-> IF temp.panic \/ temp.temp = None
               THEN cache
               ELSE (date :> temp.temp) @@ cache]

\* get_temp that does not look into its cache
get_temp_uncached(date, api) == get_temp_miss(date, fetch_data(date, api))

\* get_temp that keeps only the dates that have a Temp
get_temp_none_uncached(date, api) ==
    IF ~(date \in DOMAIN cache)
    THEN get_temp_miss_none_uncached(date, fetch_data(date, api))
    ELSE [hit |-> TRUE,
          fetched |-> Lookup(FALSE, cache[date], cache_db[Client], request_count,
                             FALSE, FALSE),
          cache |-> cache]

\* get_temp: [hit, fetched, cache]: fetched is the client lookup made on a miss
get_temp(date, api) ==
    IF ~(date \in DOMAIN cache)
    THEN get_temp_miss(date, fetch_data(date, api))
    ELSE [hit |-> TRUE,
          fetched |-> Lookup(FALSE, cache[date], cache_db[Client], request_count,
                             FALSE, FALSE),
          cache |-> cache]

(***************************************************************************)
(* The cache machine: lookups through the manager, lookups on the client,  *)
(* and new runs of the program over the same cache directory.              *)
(***************************************************************************)
Op(op, date, hit, o) ==
    [op |-> op, date |-> date, now |-> today, client |-> Client, hit |-> hit,
     panic |-> o.panic, temp |-> o.temp, called |-> o.called,
     wrote |-> o.table # cache_db[Client], avg |-> NoAvg]

NoOp ==
    [op |-> "new", date |-> FirstDate, now |-> FirstDate, client |-> "darksky",
     hit |-> FALSE, panic |-> FALSE, temp |-> None, called |-> FALSE,
     wrote |-> FALSE, avg |-> NoAvg]

NoCalls == [d \in Dates |-> 0]

InitCache ==
    /\ weather \in Archives
    /\ today = FirstDate + MaxDate - 1
    /\ avg_call = NoAvgCall
    /\ cache_db = [c \in Clients |-> <<>>]
    /\ cache = <<>>
    /\ request_count = 0
    /\ status = "running"
    /\ runs = 1
    /\ apiCalls = [c \in Clients |-> NoCalls]
    /\ apiDone = [c \in Clients |-> NoCalls]
    /\ histCalls = NoCalls
    /\ returned = [d \in Dates |-> {}]
    /\ last = NoOp

\* what a client lookup leaves behind in the client and in the store
ClientLooked(date, o) ==
    /\ cache_db' = [cache_db EXCEPT ![Client] = o.table]
    /\ request_count' = o.request_count
    /\ apiCalls' = IF o.called
                   THEN [apiCalls EXCEPT ![Client][date] = @ + 1]
                   ELSE apiCalls
    /\ apiDone' = IF o.answered
                  THEN [apiDone EXCEPT ![Client][date] = @ + 1]
                  ELSE apiDone

\* what a client lookup leaves behind, whoever made it: a panic ends the run
Looked(date, o) ==
    /\ ClientLooked(date, o)
    /\ status' = IF o.panic THEN "aborted" ELSE "running"

\* the answers the live API can give to a lookup that reaches it (a lookup
\* that does not reach it reads none)
ApiAnswers(date, miss) ==
    IF miss /\ date < today /\ ~(get_key(date) \in DOMAIN cache_db[Client])
    THEN ApiOutcomes(Client, date)
    ELSE {ApiFailure}

\* mgr.get_temp(date)
GetTemp(date) ==
    /\ status = "running"
    /\ avg_call.pc = "idle"
    /\ \E api \in ApiAnswers(date, ~(date \in DOMAIN cache)) :
         \E r \in {get_temp(date, api)} :
             /\ Looked(date, r.fetched)
             /\ cache' = r.cache
             /\ histCalls' = IF r.hit THEN histCalls
                             ELSE [histCalls EXCEPT ![date] = @ + 1]
             /\ returned' = IF r.fetched.panic THEN returned
                            ELSE [returned EXCEPT ![date] = @ \cup {r.fetched.temp}]
             /\ last' = Op("get_temp", date, r.hit, r.fetched)
    /\ UNCHANGED <<weather, today, avg_call, runs>>
    /\ UNCHANGED <<rangeVars, regVars, seriesVars, providerVars, keyVars,
                   meterVars, limitVars, graphVars, raceVars>>

\* client.get_history(date), called on the client itself
GetHistory(date) ==
    /\ status = "running"
    /\ avg_call.pc = "idle"
    /\ \E api \in ApiAnswers(date, TRUE) :
         \E o \in {get_history(Client, cache_db[Client], request_count, today, date, api)} :
             /\ Looked(date, o)
             /\ last' = Op("get_history", date, FALSE, o)
    /\ UNCHANGED <<weather, today, avg_call, runs, cache, histCalls, returned>>
    /\ UNCHANGED <<rangeVars, regVars, seriesVars, providerVars, keyVars,
                   meterVars, limitVars, graphVars, raceVars>>

\* the program is run again: main builds a new client and a new manager on
\* the cache directory the earlier runs left
NewRun ==
    /\ runs < MaxRuns
    /\ avg_call' = NoAvgCall
    /\ cache' = <<>>
    /\ request_count' = 0
    /\ status' = "running"
    /\ runs' = runs + 1
    /\ histCalls' = NoCalls
    /\ returned' = [d \in Dates |-> {}]
    /\ last' = NoOp
    /\ UNCHANGED <<weather, today, cache_db, apiCalls, apiDone>>
    /\ UNCHANGED <<rangeVars, regVars, seriesVars, providerVars, keyVars,
                   meterVars, limitVars, graphVars, raceVars>>

(***************************************************************************)
(* One client of the four, asked for one past date, on an empty table.     *)
(***************************************************************************)
\* the data sets of the responses tried hold at most MaxValues elements
MaxValues == 2

\* get_history is called at most MaxLookups times on the client
MaxLookups == 2

AllClients == {"darksky", "nws", "visual_crossing", "open_meteo"}

\* the sequences over S of at most MaxValues elements
UpToMaxValues(S) == UNION {[1 .. n -> S] : n \in 0 .. MaxValues}

\* NwsResponse, reduced to the temperature of its features
Nws(features) == [client |-> "nws", present |-> TRUE, data |-> features]

NwsFeature(unit_code, value) == [unit_code |-> unit_code, value |-> value]

\* OpenMeteoResponse, reduced to the three daily arrays get_history reads,
\* here as long as the days the response holds
OpenMeteo(days) ==
    [client |-> "open_meteo", present |-> TRUE,
     data |-> [temperature_2m_min |-> [j \in 1 .. Len(days) |-> days[j].mint],
               temperature_2m_max |-> [j \in 1 .. Len(days) |-> days[j].maxt],
               temperature_2m_mean |-> [j \in 1 .. Len(days) |-> days[j].temp]]]

DayValues == {VCValue, [mint |-> Deg(10), temp |-> Deg(15), maxt |-> Deg(20)]}

\* the responses a client's API can give with status 200 and a body that parses
ProviderResponses(c) ==
    IF c = "darksky"
    THEN {DarkSky(FALSE, <<>>)}
         \cup {DarkSky(TRUE, s) :
                 s \in UpToMaxValues({NoTemperature, Temperature(Deg(10)),
                                      Temperature(Deg(21))})}
    ELSE IF c = "nws"
    THEN {Nws(s) : s \in UpToMaxValues({NwsFeature("unit:degC", Deg(1)),
                                        NwsFeature("unit:degC", Deg(20)),
                                        NwsFeature("unit:degF", Deg(50))})}
    ELSE IF c = "open_meteo"
    THEN {OpenMeteo(s) : s \in UpToMaxValues(DayValues)}
    ELSE {VisualCrossing(FALSE, <<>>)}
         \cup {VisualCrossing(TRUE, s) : s \in UpToMaxValues(DayValues)}

NoLookup == Lookup(FALSE, None, <<>>, 0, FALSE, FALSE)

\* the station lists an NwsClient is built with: none, one, several
StationLists == {<<>>, <<"KBOS">>, <<"KBOS", "KORH">>}

IdleProvider ==
    /\ provider = "darksky"
    /\ provider_stations = <<>>
    /\ provider_answer = ApiFailure
    /\ provider_table = <<>>
    /\ provider_lookup = NoLookup
    /\ provider_lookups = 0

\* the client is constructed (init_db) on an empty cache directory
InitProvider ==
    /\ provider \in AllClients
    /\ provider_stations \in (IF provider = "nws" THEN StationLists ELSE {<<>>})
    /\ provider_answer \in
           {ApiFailure} \cup {[ok |-> TRUE, resp |-> r] : r \in ProviderResponses(provider)}
    /\ provider_table = <<>>
    /\ provider_lookup = NoLookup
    /\ provider_lookups = 0

\* NwsClient::get_history: self.stations.first().unwrap() comes before the
\* test of the date, and the rows read and written are those of that station
nws_get_history(stations, table, rc, now, date, api) ==
    IF stations = <<>> THEN Lookup(TRUE, None, table, rc, FALSE, FALSE)
    ELSE get_history("nws", table, rc, now, date, api)

\* client.get_history(date) for the past date FirstDate; a panic ends the run
ProviderGetHistory ==
    /\ provider_lookups < MaxLookups
    /\ ~provider_lookup.panic
    /\ \E o \in {IF provider = "nws"
                  THEN nws_get_history(provider_stations, provider_table,
                                       provider_lookup.request_count, today, FirstDate,
                                       provider_answer)
                  ELSE get_history(provider, provider_table,
                                   provider_lookup.request_count, today, FirstDate,
                                   provider_answer)} :
           /\ provider_lookup' = o
           /\ provider_table' = o.table
    /\ provider_lookups' = provider_lookups + 1
    /\ UNCHANGED <<provider, provider_stations, provider_answer>>
    /\ UNCHANGED <<cacheVars, rangeVars, regVars, seriesVars, keyVars,
                   meterVars, limitVars, graphVars, raceVars>>

\* the stored blob of the date is damaged on disk, or was written by a
\* version of the program with another response type: it no longer gunzips
\* (part = "gzip") or no longer deserializes (part = "msgpack")
DamageBlob(part) ==
    /\ ~provider_lookup.panic
    /\ get_key(FirstDate) \in DOMAIN provider_table
    /\ LET raw == provider_table[get_key(FirstDate)]
       IN  /\ raw.gzip /\ raw.msgpack
           /\ provider_table' =
                  [provider_table EXCEPT ![get_key(FirstDate)] =
                      IF part = "gzip" THEN [raw EXCEPT !.gzip = FALSE]
                      ELSE [raw EXCEPT !.msgpack = FALSE]]
    /\ UNCHANGED <<provider, provider_stations, provider_answer, provider_lookup,
                   provider_lookups>>
    /\ UNCHANGED <<cacheVars, rangeVars, regVars, seriesVars, keyVars,
                   meterVars, limitVars, graphVars, raceVars>>

(***************************************************************************)
(* get_key along a run of calendar days.  A Date of the time crate is a    *)
(* calendar date; the day number of the rest of the model is its count of  *)
(* days from 0001-01-01 (day 1).                                           *)
(***************************************************************************)
\* get_key is applied to at most MaxWalk consecutive days
MaxWalk == 8

CalendarDate(y, m, d) == [year |-> y, month |-> m, day |-> d]

IsLeapYear(y) == y % 4 = 0 /\ (y % 100 # 0 \/ y % 400 = 0)

DaysInMonth(y, m) ==
    IF m = 2 THEN (IF IsLeapYear(y) THEN 29 ELSE 28)
    ELSE IF m \in {4, 6, 9, 11} THEN 30
    ELSE 31

RECURSIVE DaysBeforeMonth(_, _)
DaysBeforeMonth(y, m) ==
    IF m = 1 THEN 0 ELSE DaysBeforeMonth(y, m - 1) + DaysInMonth(y, m - 1)

\* the day number of a calendar date
DayNumber(c) ==
    LET y == c.year - 1
    IN  365 * y + (y \div 4) - (y \div 100) + (y \div 400)
        + DaysBeforeMonth(c.year, c.month) + c.day

\* the calendar date after c
NextDay(c) ==
    IF c.day < DaysInMonth(c.year, c.month)
    THEN CalendarDate(c.year, c.month, c.day + 1)
    ELSE IF c.month < 12 THEN CalendarDate(c.year, c.month + 1, 1)
    ELSE CalendarDate(c.year + 1, 1, 1)

\* the days the runs start from: before the epoch, before the ends of years
\* and before the ends of February in leap and other years
KeyStarts ==
    {CalendarDate(1969, 12, 29), CalendarDate(1970, 1, 1), CalendarDate(1971, 12, 28),
     CalendarDate(1972, 2, 26), CalendarDate(1900, 2, 25), CalendarDate(2000, 2, 25),
     CalendarDate(2023, 12, 28), CalendarDate(2024, 2, 25)}

IdleKey ==
    /\ key_date = CalendarDate(1970, 1, 1)
    /\ key_pc = "idle"
    /\ key_walk = <<>>

InitKey ==
    /\ key_date \in KeyStarts
    /\ key_pc = "key"
    /\ key_walk = <<>>

\* get_key(&date)
GetKey ==
    /\ key_pc = "key"
    /\ key_walk' = Append(key_walk,
                          [date |-> key_date, key |-> get_key(DayNumber(key_date))])
    /\ key_pc' = "next"
    /\ UNCHANGED key_date
    /\ UNCHANGED <<cacheVars, rangeVars, regVars, seriesVars, providerVars,
                   meterVars, limitVars, graphVars, raceVars>>

\* the caller goes on to the next day
KeyNextDay ==
    /\ key_pc = "next"
    /\ Len(key_walk) < MaxWalk
    /\ key_date' = NextDay(key_date)
    /\ key_pc' = "key"
    /\ UNCHANGED key_walk
    /\ UNCHANGED <<cacheVars, rangeVars, regVars, seriesVars, providerVars,
                   meterVars, limitVars, graphVars, raceVars>>

(***************************************************************************)
(* date_range (TempDataManager), one loop iteration per step.              *)
(***************************************************************************)
\* date_range is tried on the dates FirstDate .. FirstDate + MaxSpan
MaxSpan == 5

RangeDates == FirstDate .. FirstDate + MaxSpan

IdleRange ==
    /\ start_date = FirstDate
    /\ end_date = FirstDate
    /\ range_i = 0
    /\ range_dates = <<>>
    /\ range_pc = "idle"

\* let mut dates = Vec::new(), entering the loop
InitRange ==
    /\ start_date \in RangeDates
    /\ end_date \in RangeDates
    /\ range_i = 0
    /\ range_dates = <<>>
    /\ range_pc = "loop"

\* the range 0..end_date.signed_duration_since(start_date).num_days() still
\* holds i
range_has_inclusive(start, end, i) == i <= end - start

range_has(start, end, i) == i < end - start

\* dates.push(start_date + Duration::days(i))
DateRangePush ==
    /\ range_pc = "loop"
    /\ range_has(start_date, end_date, range_i)
    /\ range_dates' = Append(range_dates, start_date + range_i)
    /\ range_i' = range_i + 1
    /\ UNCHANGED <<start_date, end_date, range_pc>>
    /\ UNCHANGED <<cacheVars, regVars, seriesVars, providerVars, keyVars,
                   meterVars, limitVars, graphVars, raceVars>>

\* the range is exhausted: return dates
DateRangeReturn ==
    /\ range_pc = "loop"
    /\ ~range_has(start_date, end_date, range_i)
    /\ range_pc' = "done"
    /\ UNCHANGED <<start_date, end_date, range_i, range_dates>>
    /\ UNCHANGED <<cacheVars, regVars, seriesVars, providerVars, keyVars,
                   meterVars, limitVars, graphVars, raceVars>>

(***************************************************************************)
(* TempDataManager::get_avg_min_temp, get_avg_mean_temp, get_avg_max_temp: *)
(* get_avg_temp with the selector of the field, one get_temp per step.     *)
(***************************************************************************)
RECURSIVE date_range_from(_, _, _)
date_range_from(start, end, i) ==
    IF range_has(start, end, i)
    THEN <<start + i>> \o date_range_from(start, end, i + 1)
    ELSE <<>>

\* TempDataManager::date_range(start_date, end_date)
date_range(start, end) == date_range_from(start, end, 0)

\* the closures |x: &Temp| x.min, x.mean and x.max
Selectors == {"min", "mean", "max"}

selector(name, temp) ==
    IF name = "min" THEN temp.min
    ELSE IF name = "mean" THEN temp.mean
    ELSE temp.max

RECURSIVE iter_sum(_, _)
\* temps.iter().sum::<f32>(): the fold of + over the temperatures
iter_sum(acc, temps) ==
    IF temps = <<>> THEN acc
    ELSE iter_sum(FAdd(F32, acc, Head(temps)), Tail(temps))

\* the value the standard library starts the fold from: 0.0, and -0.0 in its
\* newer versions
SumIdentities == {Zero(1), Zero(-1)}

\* temps.iter().sum::<f32>() / temps.len() as f32
avg_of(zero, temps) == FDiv(F32, iter_sum(zero, temps), FromInt(F32, Len(temps)))

AvgOp(result) == [NoOp EXCEPT !.op = "get_avg_temp", !.now = today, !.avg = result]

\* mgr.get_avg_..._temp(from_date, to_date), up to the map over the dates of
\* date_range(from_date, to_date)
GetAvgTemp(name, from_date, to_date) ==
    /\ status = "running"
    /\ avg_call.pc = "idle"
    /\ avg_call' = [pc |-> "map", selector |-> name,
                    dates |-> date_range(from_date, to_date), temps |-> <<>>]
    /\ last' = AvgOp(NoAvg)
    /\ UNCHANGED <<weather, today, cache_db, cache, request_count, status, runs,
                   apiCalls, apiDone, histCalls, returned>>
    /\ UNCHANGED <<rangeVars, regVars, seriesVars, providerVars, keyVars,
                   meterVars, limitVars, graphVars, raceVars>>

\* the closure of the map on the next date: self.get_temp(&date), then
\* temp.as_ref().unwrap() panics on a date without a Temp, then the selector
AvgMap ==
    /\ status = "running"
    /\ avg_call.pc = "map"
    /\ avg_call.dates # <<>>
    /\ LET date == Head(avg_call.dates)
       IN  \E api \in ApiAnswers(date, ~(date \in DOMAIN cache)) :
             \E r \in {get_temp(date, api)} :
             LET unwrapped == ~r.fetched.panic /\ r.fetched.temp.some
             IN  /\ ClientLooked(date, r.fetched)
                 /\ cache' = r.cache
                 /\ status' = IF unwrapped THEN "running" ELSE "aborted"
                 /\ histCalls' = IF r.hit THEN histCalls
                                 ELSE [histCalls EXCEPT ![date] = @ + 1]
                 /\ returned' = IF r.fetched.panic THEN returned
                                ELSE [returned EXCEPT ![date] = @ \cup {r.fetched.temp}]
                 /\ last' = Op("get_temp", date, r.hit, r.fetched)
                 /\ avg_call' =
                        IF unwrapped
                        THEN [avg_call EXCEPT
                                 !.dates = Tail(@),
                                 !.temps = Append(@, selector(avg_call.selector,
                                                             r.fetched.temp))]
                        ELSE avg_call
    /\ UNCHANGED <<weather, today, runs>>
    /\ UNCHANGED <<rangeVars, regVars, seriesVars, providerVars, keyVars,
                   meterVars, limitVars, graphVars, raceVars>>

\* the map is through: the sum of the temperatures by their number, NaN for
\* no date
AvgReturn ==
    /\ status = "running"
    /\ avg_call.pc = "map"
    /\ avg_call.dates = <<>>
    /\ \E zero \in SumIdentities :
           last' = AvgOp([some |-> TRUE, v |-> avg_of(zero, avg_call.temps)])
    /\ avg_call' = NoAvgCall
    /\ UNCHANGED <<weather, today, cache_db, cache, request_count, status, runs,
                   apiCalls, apiDone, histCalls, returned>>
    /\ UNCHANGED <<rangeVars, regVars, seriesVars, providerVars, keyVars,
                   meterVars, limitVars, graphVars, raceVars>>

(***************************************************************************)
(* SimpleRegression.                                                       *)
(***************************************************************************)
SimpleRegression_stale ==
    [sum_x |-> Zero(1), sum_xx |-> Zero(1), sum_y |-> Zero(1), sum_yy |-> Zero(1),
     sum_xy |-> Zero(1), n |-> 1, x_bar |-> Zero(1), y_bar |-> Zero(1),
     has_intercept |-> TRUE]

\* SimpleRegression::new
SimpleRegression_new ==
    [sum_x |-> Zero(1), sum_xx |-> Zero(1), sum_y |-> Zero(1), sum_yy |-> Zero(1),
     sum_xy |-> Zero(1), n |-> 0, x_bar |-> Zero(1), y_bar |-> Zero(1),
     has_intercept |-> TRUE]

\* add_data, the branch with an intercept: the sums and the means move by the
\* deviations dx and dy of the point from the means
add_data_deviations(r, dx, dy, fact1, fact2) ==
    [r EXCEPT !.sum_xx = FAdd(F64, @, FMul(F64, FMul(F64, dx, dx), fact2)),
              !.sum_yy = FAdd(F64, @, FMul(F64, FMul(F64, dy, dy), fact2)),
              !.sum_xy = FAdd(F64, @, FMul(F64, FMul(F64, dx, dy), fact2)),
              !.x_bar = FAdd(F64, @, FDiv(F64, dx, fact1)),
              !.y_bar = FAdd(F64, @, FDiv(F64, dy, fact1))]

\* add_data, its first statement: the first point sets the means
add_data_means(r, x, y, fact2) ==
    IF r.n = 0
    THEN [r EXCEPT !.x_bar = x, !.y_bar = y]
    ELSE IF r.has_intercept
    THEN add_data_deviations(r, FSub(F64, x, r.x_bar), FSub(F64, y, r.y_bar),
                             FAdd(F64, Num(1), Num(r.n)), fact2)
    ELSE r

\* add_data, its second statement
add_data_no_intercept(r, x, y) ==
    IF ~r.has_intercept
    THEN [r EXCEPT !.sum_xx = FAdd(F64, @, FMul(F64, x, x)),
                   !.sum_yy = FAdd(F64, @, FMul(F64, y, y)),
                   !.sum_xy = FAdd(F64, @, FMul(F64, x, y))]
    ELSE r

\* add_data, its last statements
add_data_sums(r, x, y) ==
    [r EXCEPT !.sum_x = FAdd(F64, @, x), !.sum_y = FAdd(F64, @, y), !.n = @ + 1]

\* add_data(x, y), x and y f64
add_data_unweighted(r, x, y) ==
    add_data_sums(add_data_no_intercept(add_data_means(r, x, y, Num(1)), x, y), x, y)

add_data(r, x, y) ==
    add_data_sums(
        add_data_no_intercept(
            add_data_means(r, x, y, FDiv(F64, Num(r.n), FAdd(F64, Num(1), Num(r.n)))),
            x, y),
        x, y)

\* f64::MIN, the most negative finite f64: -(2^53 - 1) * 2^971
F64Min == Finite(-1, <<32767, 32767, 32767, 255>>, 971)

\* 10f64 * f64::MIN: the product overflows to negative infinity
TenTimesF64Min == FMul(F64, Num(10), F64Min)

\* the test of get_slope's second branch ("not enough variation in x")
not_enough_variation(r) == FLt(FAbs(r.sum_xx), TenTimesF64Min)

\* get_slope
get_slope_zero_guard(r) ==
    IF r.n < 2 THEN NaN
    ELSE IF IsZero(r.sum_xx) THEN Zero(1)
    ELSE FDiv(F64, r.sum_xy, r.sum_xx)

get_slope(r) ==
    IF r.n < 2 THEN NaN
    ELSE IF not_enough_variation(r) THEN NaN
    ELSE FDiv(F64, r.sum_xy, r.sum_xx)

\* get_intercept(slope)
get_intercept(r, slope) ==
    IF r.has_intercept
    THEN FDiv(F64, FSub(F64, r.sum_y, FMul(F64, slope, r.sum_x)), Num(r.n))
    ELSE Zero(1)

\* predict from the slope b1 on
predict_with(r, b1, x) ==
    IF r.has_intercept
    THEN FAdd(F64, get_intercept(r, b1), FMul(F64, b1, x))
    ELSE FMul(F64, b1, x)

\* predict(x)
predict(r, x) == predict_with(r, get_slope(r), x)

\* the regression on its own takes at most MaxPoints observations, with x in
\* 0 .. MaxX
MaxPoints == 3

MaxX == 2

RegXs == 0 .. MaxX

RegYs == {0, 1, 3}

NoPrediction == [x |-> 0, y |-> Zero(1), made |-> FALSE]

IdleReg ==
    /\ regression = SimpleRegression_new
    /\ points = <<>>
    /\ predicted = NoPrediction

\* regression.add_data(x, y)
AddData(x, y) ==
    /\ Len(points) < MaxPoints
    /\ regression' = add_data(regression, Num(x), Num(y))
    /\ points' = Append(points, <<x, y>>)
    /\ predicted' = NoPrediction
    /\ UNCHANGED <<cacheVars, rangeVars, seriesVars, providerVars, keyVars,
                   meterVars, limitVars, graphVars, raceVars>>

\* regression.predict(x)
Predict(x) ==
    /\ predicted' = [x |-> x, y |-> predict(regression, Num(x)), made |-> TRUE]
    /\ UNCHANGED <<regression, points>>
    /\ UNCHANGED <<cacheVars, rangeVars, seriesVars, providerVars, keyVars,
                   meterVars, limitVars, graphVars, raceVars>>

(***************************************************************************)
(* calc_temp_series (grapher), one loop iteration per step.                *)
(***************************************************************************)
as_f32_zero_for_nan(v) == IF IsNaN(v) THEN Zero(1) ELSE Cast(F32, v)

\* v as f32, v an f64
as_f32(v) == Cast(F32, v)

\* v as f64, v an f32: every f32 is an f64
as_f64(v) == Cast(F64, v)

\* calc_temp_series is tried on series of at most MaxLen measurements, dated
\* FirstDate .. FirstDate + MaxDay in any order, and on the widths of Widths
MaxLen == 3

MaxDay == 3

MaxW == 3

\* the largest u8
U8Max == 255

\* the widths tried: the small ones and the largest
Widths == (0 .. MaxW) \cup {U8Max}

Measurement(date, amount) == [date |-> date, amount |-> amount]

\* the reading of a day: one amount per date, not linear in the date
Reading(date) ==
    Measurement(date, FromInt(F32, 10 + 7 * (date - FirstDate) * (date - FirstDate)))

SeriesInputs ==
    UNION {[1 .. n -> {Reading(d) : d \in FirstDate .. FirstDate + MaxDay}] :
           n \in 0 .. MaxLen}

RECURSIVE MinDate_or_first(_)
\* a minimum that falls back on FirstDate for no dates
MinDate_or_first(ms) ==
    IF Len(ms) = 0 THEN [some |-> TRUE, v |-> FirstDate]
    ELSE IF Len(ms) = 1 THEN [some |-> TRUE, v |-> Head(ms).date]
    ELSE LET rest == MinDate_or_first(Tail(ms))
         IN  IF rest.v < Head(ms).date
             THEN rest
             ELSE [some |-> TRUE, v |-> Head(ms).date]

RECURSIVE MinDate(_)
\* data.iter().map(|r| r.date).min()
MinDate(ms) ==
    IF Len(ms) = 0 THEN None
    ELSE LET rest == MinDate(Tail(ms))
         IN  IF rest.some /\ rest.v < Head(ms).date
             THEN rest
             ELSE [some |-> TRUE, v |-> Head(ms).date]

IdleSeries ==
    /\ series_data = <<>>
    /\ num_days = 0
    /\ series_pc = "idle"
    /\ base_date = FirstDate
    /\ lower_init = 0
    /\ measurement = 1
    /\ lower_bound = FirstDate
    /\ upper_bound = FirstDate
    /\ scan_i = 0
    /\ dates = <<>>
    /\ amounts = <<>>
    /\ fed = <<>>

InitSeries ==
    /\ series_data \in SeriesInputs
    /\ num_days \in Widths
    /\ series_pc = "start"
    /\ base_date = FirstDate
    /\ lower_init = 0
    /\ measurement = 1
    /\ lower_bound = FirstDate
    /\ upper_bound = FirstDate
    /\ scan_i = 0
    /\ dates = <<>>
    /\ amounts = <<>>
    /\ fed = <<>>

\* the lower bound of the window of a measurement
window_lower(date, days) == date - TruncDiv(days, 2)

\* the upper bound of the window of a measurement
window_upper_symmetric(date, days) == date + TruncDiv(days, 2)

window_upper(date, days) == date + TruncDiv(days - 1, 2)

\* the test of the first while loop: the date is before the window
below_window_reversed(lower, date) == date - lower > 0

below_window_or_equal(lower, date) == lower - date >= 0

below_window(lower, date) == lower - date > 0

in_window_strict(date, upper) == date - upper < 0

\* the date test of the second while loop: the date is not after the window
in_window(date, upper) == date - upper <= 0

\* base_date, lower_init, dates and amounts are set up; unwrap panics on an
\* empty series
CalcStart ==
    /\ series_pc = "start"
    /\ IF MinDate(series_data).some
       THEN /\ base_date' = MinDate(series_data).v
            /\ series_pc' = "next"
       ELSE /\ series_pc' = "panic"
            /\ UNCHANGED base_date
    /\ lower_init' = 0
    /\ dates' = <<>>
    /\ amounts' = <<>>
    /\ UNCHANGED <<series_data, num_days, measurement, lower_bound, upper_bound, scan_i, fed>>
    /\ UNCHANGED <<cacheVars, rangeVars, regVars, providerVars, keyVars,
                   meterVars, limitVars, graphVars, raceVars>>

\* for measurement in &data: the bounds, a new regression, i = lower_init
NextMeasurement ==
    /\ series_pc = "next"
    /\ IF measurement <= Len(series_data)
       THEN /\ lower_bound' = window_lower(series_data[measurement].date, num_days)
            /\ upper_bound' = window_upper(series_data[measurement].date, num_days)
            /\ regression' = SimpleRegression_new
            /\ scan_i' = lower_init
            /\ fed' = Append(fed, <<>>)
            /\ series_pc' = "lower"
       ELSE /\ series_pc' = "done"
            /\ UNCHANGED <<lower_bound, upper_bound, regression, scan_i, fed>>
    /\ UNCHANGED <<series_data, num_days, base_date, lower_init, measurement, dates, amounts>>
    /\ UNCHANGED <<cacheVars, rangeVars, points, predicted, providerVars, keyVars,
                   meterVars, limitVars, graphVars, raceVars>>

\* one test of the first while loop; data[i] panics past the end
LowerScan ==
    /\ series_pc = "lower"
    /\ IF scan_i >= Len(series_data)
       THEN /\ series_pc' = "panic"
            /\ UNCHANGED <<scan_i, lower_init>>
       ELSE IF below_window(lower_bound, series_data[scan_i + 1].date)
       THEN /\ scan_i' = scan_i + 1
            /\ UNCHANGED <<series_pc, lower_init>>
       ELSE /\ lower_init' = scan_i
            /\ series_pc' = "upper"
            /\ UNCHANGED scan_i
    /\ UNCHANGED <<series_data, num_days, base_date, measurement, lower_bound, upper_bound,
                   dates, amounts, fed>>
    /\ UNCHANGED <<cacheVars, rangeVars, regVars, providerVars, keyVars,
                   meterVars, limitVars, graphVars, raceVars>>

\* one test of the second while loop; after it, the push of the date and of
\* the prediction
UpperScan ==
    /\ series_pc = "upper"
    /\ IF scan_i < Len(series_data) /\ in_window(series_data[scan_i + 1].date, upper_bound)
       THEN /\ regression' = add_data(regression,
                                      Num(series_data[scan_i + 1].date - base_date),
                                      as_f64(series_data[scan_i + 1].amount))
            /\ fed' = [fed EXCEPT ![Len(fed)] = Append(@, scan_i + 1)]
            /\ scan_i' = scan_i + 1
            /\ UNCHANGED <<series_pc, measurement, dates, amounts>>
       ELSE /\ dates' = Append(dates, series_data[measurement].date)
            /\ amounts' = Append(amounts,
                   as_f32(predict(regression, Num(series_data[measurement].date - base_date))))
            /\ measurement' = measurement + 1
            /\ series_pc' = "next"
            /\ UNCHANGED <<regression, fed, scan_i>>
    /\ UNCHANGED <<series_data, num_days, base_date, lower_init, lower_bound, upper_bound>>
    /\ UNCHANGED <<cacheVars, rangeVars, points, predicted, providerVars, keyVars,
                   meterVars, limitVars, graphVars, raceVars>>

(***************************************************************************)
(* A meter file: Measurements::from_file, then calc_measurement_series on  *)
(* the readings (graph_all, for the electric and for the gas file).        *)
(***************************************************************************)
\* a file has at most MaxRows rows
MaxRows == 3

U16Max == 65535

\* the date fields of the rows: the last one is not a date of the calendar
FileDates ==
    {CalendarDate(2024, 1, 29), CalendarDate(2024, 2, 1), CalendarDate(2024, 2, 30)}

\* the value fields of the rows: the first one is not a u16
FileValues == {-1, 0, 100}

FileRows == [date : FileDates, value : FileValues]

FileInputs == UNION {[1 .. n -> FileRows] : n \in 0 .. MaxRows}

\* Date::parse(&date_str, "[year]-[month]-[day]")
parse_date(c) ==
    IF c.month \in 1 .. 12 /\ c.day \in 1 .. DaysInMonth(c.year, c.month)
    THEN [ok |-> TRUE, date |-> DayNumber(c)]
    ELSE [ok |-> FALSE, date |-> 0]

\* the u16 field of a row as serde reads it
parse_u16(v) == v \in 0 .. U16Max

RECURSIVE read_records(_, _)
\* the for loop over reader.deserialize(): the first row that does not parse
\* ends from_file with its error
read_records(rows, acc) ==
    IF rows = <<>> THEN [ok |-> TRUE, data |-> acc]
    ELSE IF ~parse_u16(Head(rows).value) THEN [ok |-> FALSE, data |-> <<>>]
    ELSE IF ~parse_date(Head(rows).date).ok THEN [ok |-> FALSE, data |-> <<>>]
    ELSE read_records(Tail(rows),
                      Append(acc, Measurement(parse_date(Head(rows).date).date,
                                              FromInt(F32, Head(rows).value))))

RECURSIVE insert_by_date(_, _)
\* r goes after the records dated like it or earlier
insert_by_date(sorted, r) ==
    IF sorted = <<>> THEN <<r>>
    ELSE IF Head(sorted).date <= r.date
    THEN <<Head(sorted)>> \o insert_by_date(Tail(sorted), r)
    ELSE <<r>> \o sorted

RECURSIVE sort_by_date(_)
\* records.sort_by(|a, b| a.date.cmp(&b.date)): a stable sort
sort_by_date(rs) ==
    IF rs = <<>> THEN <<>>
    ELSE insert_by_date(sort_by_date(SubSeq(rs, 1, Len(rs) - 1)), rs[Len(rs)])

\* from_file after the loop: the records are sorted
from_file_sorted(r) == IF r.ok THEN [ok |-> TRUE, data |-> sort_by_date(r.data)] ELSE r

\* Measurements::from_file: Ok with the sorted records, or Err
from_file(rows) == from_file_sorted(read_records(rows, <<>>))

\* the point of reading i that counts the days from the reading itself
measurement_point_same_day(data, i) ==
    [date |-> data[i + 1].date,
     amount |-> FDiv(F32, data[i + 1].amount,
                     FromInt(F32, data[i + 1].date - data[i + 1].date))]

\* the body of the for loop for i (0-based): the date of the reading and its
\* amount per day since the reading before
measurement_point(data, i) ==
    [date |-> data[i + 1].date,
     amount |-> FDiv(F32, data[i + 1].amount,
                     FromInt(F32, data[i + 1].date - data[i].date))]

RECURSIVE measurement_loop(_, _, _)
\* for i in 1..data.len()
measurement_loop(data, i, acc) ==
    IF i >= Len(data) THEN acc
    ELSE measurement_loop(data, i + 1, Append(acc, measurement_point(data, i)))

\* the dates and the amounts of the points
unzip(ps) ==
    [dates |-> [j \in 1 .. Len(ps) |-> ps[j].date],
     amounts |-> [j \in 1 .. Len(ps) |-> ps[j].amount]]

\* calc_measurement_series: (dates, amounts)
calc_measurement_series(data) == unzip(measurement_loop(data, 1, <<>>))

IdleMeter ==
    /\ file_rows = <<>>
    /\ meter_pc = "idle"
    /\ records = <<>>
    /\ plot_dates = <<>>
    /\ plot_amounts = <<>>

InitMeter ==
    /\ file_rows \in FileInputs
    /\ meter_pc = "file"
    /\ records = <<>>
    /\ plot_dates = <<>>
    /\ plot_amounts = <<>>

\* main: Measurements::from_file(..).expect(..)
FromFile ==
    /\ meter_pc = "file"
    /\ \E r \in {from_file(file_rows)} :
           /\ meter_pc' = IF r.ok THEN "loaded" ELSE "err"
           /\ records' = r.data
    /\ UNCHANGED <<file_rows, plot_dates, plot_amounts>>
    /\ UNCHANGED <<cacheVars, rangeVars, regVars, seriesVars, providerVars, keyVars,
                   limitVars, graphVars, raceVars>>

\* graph_all: calc_measurement_series(electric_data.data)
CalcMeasurementSeries ==
    /\ meter_pc = "loaded"
    /\ \E r \in {calc_measurement_series(records)} :
           /\ plot_dates' = r.dates
           /\ plot_amounts' = r.amounts
    /\ meter_pc' = "plotted"
    /\ UNCHANGED <<file_rows, records>>
    /\ UNCHANGED <<cacheVars, rangeVars, regVars, seriesVars, providerVars, keyVars,
                   limitVars, graphVars, raceVars>>

(***************************************************************************)
(* One DarkSkyClient asked for one new past date after the other, and now  *)
(* and then for a date it has stored.                                      *)
(***************************************************************************)
\* what DarkSky answers for every date
LimitResponse == DarkSky(TRUE, <<Temperature(Deg(10)), Temperature(Deg(20))>>)

\* the n-th new date asked for: n days before yesterday
LimitDate(n) == today - 1 - n

IdleLimit ==
    /\ limit_count = 0
    /\ limit_table = <<>>
    /\ limit_status = "idle"
    /\ limit_last = NoLookup
    /\ limit_sent = 0

\* DarkSkyClient::new on an empty cache directory
InitLimit ==
    /\ limit_count = 0
    /\ limit_table = <<>>
    /\ limit_status = "running"
    /\ limit_last = NoLookup
    /\ limit_sent = 0

LimitOthers == <<cacheVars, rangeVars, regVars, seriesVars, providerVars, keyVars,
                 meterVars, graphVars, raceVars>>

\* what a get_history leaves behind
LimitLooked(o) ==
    /\ limit_last' = o
    /\ limit_table' = o.table
    /\ limit_count' = o.request_count
    /\ limit_status' = IF o.panic THEN "aborted" ELSE "running"

\* get_history of a date the table does not hold: a live request, which the
\* network answers or not
LimitGetHistoryNew ==
    /\ limit_status = "running"
    /\ \E api \in {ApiFailure, [ok |-> TRUE, resp |-> LimitResponse]} :
         /\ LimitLooked(get_history("darksky", limit_table, limit_count, today,
                                    LimitDate(limit_count), api))
         /\ limit_sent' = IF get_from_api("darksky", limit_count, api).http
                          THEN limit_sent + 1
                          ELSE limit_sent
    /\ UNCHANGED LimitOthers

\* get_history of the date stored last
LimitGetHistoryStored ==
    /\ limit_status = "running"
    /\ limit_count >= 1
    /\ LimitLooked(get_history("darksky", limit_table, limit_count, today,
                               LimitDate(limit_count - 1), ApiFailure))
    /\ UNCHANGED limit_sent
    /\ UNCHANGED LimitOthers

(***************************************************************************)
(* graph_all, from the measurement dates to the call of calc_temp_series   *)
(* for the daily maxima.                                                   *)
(***************************************************************************)
\* the electric file has at most MaxElectric readings, the gas file MaxGas
MaxElectric == 2

MaxGas == 1

\* the smoothing width the runs are made with
GraphWidth == 3

\* Measurements.data as from_file leaves it, reduced to the dates: in
\* non-decreasing order
ReadingDates(n) ==
    {s \in UNION {[1 .. k -> Dates] : k \in 0 .. n} :
        \A j \in 1 .. Len(s) - 1 : s[j] <= s[j + 1]}

RECURSIVE insert_date(_, _)
insert_date(sorted, d) ==
    IF sorted = <<>> THEN <<d>>
    ELSE IF Head(sorted) <= d THEN <<Head(sorted)>> \o insert_date(Tail(sorted), d)
    ELSE <<d>> \o sorted

RECURSIVE sort_dates(_)
\* measurement_dates.sort()
sort_dates(ds) ==
    IF ds = <<>> THEN <<>>
    ELSE insert_date(sort_dates(SubSeq(ds, 1, Len(ds) - 1)), ds[Len(ds)])

RECURSIVE dedup(_)
\* measurement_dates.dedup(): of equal neighbours the first stays
dedup(ds) ==
    IF Len(ds) <= 1 THEN ds
    ELSE IF ds[Len(ds)] = ds[Len(ds) - 1] THEN dedup(SubSeq(ds, 1, Len(ds) - 1))
    ELSE Append(dedup(SubSeq(ds, 1, Len(ds) - 1)), ds[Len(ds)])

IdleGraph ==
    /\ electric_data = <<>>
    /\ gas_data = <<>>
    /\ loess_days = 0
    /\ graph_pc = "idle"
    /\ measurement_dates = <<>>
    /\ graph_i = 0
    /\ daily_temp_data = <<>>

InitGraph ==
    /\ electric_data \in ReadingDates(MaxElectric)
    /\ gas_data \in ReadingDates(MaxGas)
    /\ loess_days = GraphWidth
    /\ graph_pc = "collect"
    /\ measurement_dates = <<>>
    /\ graph_i = 0
    /\ daily_temp_data = <<>>

\* main's manager and client at the call of graph_all, on an empty cache
\* directory; the run is made on the day after the last date but one, or
\* after all dates
InitGraphCache ==
    /\ weather \in Archives
    /\ today \in {FirstDate + MaxDate - 1, FirstDate + MaxDate + 1}
    /\ avg_call = NoAvgCall
    /\ cache_db = [c \in Clients |-> <<>>]
    /\ cache = <<>>
    /\ request_count = 0
    /\ status = "running"
    /\ runs = 1
    /\ apiCalls = [c \in Clients |-> NoCalls]
    /\ apiDone = [c \in Clients |-> NoCalls]
    /\ histCalls = NoCalls
    /\ returned = [d \in Dates |-> {}]
    /\ last = NoOp

GraphOthers == <<regVars, providerVars, keyVars, meterVars, limitVars, raceVars>>

\* the measurement dates are collected, sorted and deduplicated, and
\* date_range is called with the first and the last; measurement_dates[0]
\* panics when there is no reading at all
GraphCollect ==
    /\ graph_pc = "collect"
    /\ measurement_dates' = dedup(sort_dates(electric_data \o gas_data))
    /\ IF measurement_dates' = <<>>
       THEN /\ graph_pc' = "panic"
            /\ UNCHANGED rangeVars
       ELSE /\ graph_pc' = "temps"
            /\ start_date' = measurement_dates'[1]
            /\ end_date' = measurement_dates'[Len(measurement_dates')]
            /\ range_i' = 0
            /\ range_dates' = <<>>
            /\ range_pc' = "loop"
    /\ UNCHANGED <<electric_data, gas_data, loess_days, graph_i, daily_temp_data>>
    /\ UNCHANGED <<cacheVars, seriesVars>>
    /\ UNCHANGED GraphOthers

\* filter_map takes the next date of the range: mgr.get_temp(&date), and the
\* pair (date, temp) if there is a Temp
GraphGetTemp ==
    /\ graph_pc = "temps"
    /\ range_pc = "done"
    /\ graph_i < Len(range_dates)
    /\ LET date == range_dates[graph_i + 1]
       IN  \E api \in ApiAnswers(date, ~(date \in DOMAIN cache)) :
             \E r \in {get_temp(date, api)} :
                 /\ Looked(date, r.fetched)
                 /\ cache' = r.cache
                 /\ histCalls' = IF r.hit THEN histCalls
                                 ELSE [histCalls EXCEPT ![date] = @ + 1]
                 /\ returned' = IF r.fetched.panic THEN returned
                                ELSE [returned EXCEPT ![date] = @ \cup {r.fetched.temp}]
                 /\ last' = Op("get_temp", date, r.hit, r.fetched)
                 /\ graph_pc' = IF r.fetched.panic THEN "panic" ELSE "temps"
                 /\ daily_temp_data' =
                        IF ~r.fetched.panic /\ r.fetched.temp.some
                        THEN Append(daily_temp_data, <<date, r.fetched.temp>>)
                        ELSE daily_temp_data
    /\ graph_i' = graph_i + 1
    /\ UNCHANGED <<weather, today, avg_call, runs>>
    /\ UNCHANGED <<electric_data, gas_data, loess_days, measurement_dates>>
    /\ UNCHANGED <<rangeVars, seriesVars>>
    /\ UNCHANGED GraphOthers

\* calc_temp_series is called with the daily maxima
GraphCalcTempSeries ==
    /\ graph_pc = "temps"
    /\ range_pc = "done"
    /\ graph_i = Len(range_dates)
    /\ graph_pc' = "series"
    /\ series_data' = [j \in 1 .. Len(daily_temp_data) |->
                          Measurement(daily_temp_data[j][1],
                                      daily_temp_data[j][2].max)]
    /\ num_days' = loess_days
    /\ series_pc' = "start"
    /\ UNCHANGED <<base_date, lower_init, measurement, lower_bound, upper_bound, scan_i,
                   dates, amounts, fed>>
    /\ UNCHANGED <<electric_data, gas_data, loess_days, measurement_dates, graph_i,
                   daily_temp_data>>
    /\ UNCHANGED <<cacheVars, rangeVars>>
    /\ UNCHANGED GraphOthers

(***************************************************************************)
(* Two OpenMeteo clients on one cache store (two runs of the program at    *)
(* the same time, or two clients of one process): each SQL statement and   *)
(* each HTTP call is one step, and the steps of the two interleave.        *)
(***************************************************************************)
\* each client makes at most MaxRaceLookups lookups
MaxRaceLookups == 2

RaceClients == {1, 2}

\* the dates looked up: two past dates and today
RaceDates == {FirstDate, FirstDate + 1, FirstDate + MaxDate - 1}

\* what the archive answers for a date
RaceWeather(date) ==
    OpenMeteo(<<IF date = FirstDate THEN VCValue
                ELSE [mint |-> Deg(10), temp |-> Deg(15), maxt |-> Deg(20)]>>)

IdleRace ==
    /\ race_pc = [p \in RaceClients |-> "idle"]
    /\ race_date = [p \in RaceClients |-> FirstDate]
    /\ race_resp = [p \in RaceClients |-> None]
    /\ race_table = <<>>
    /\ race_lookups = [p \in RaceClients |-> 0]
    /\ race_calls = [d \in RaceDates |-> 0]
    /\ race_panic = [p \in RaceClients |-> "none"]
    /\ race_temp = [p \in RaceClients |-> None]

\* OpenMeteoClient::new for both: init_db creates the table if it is not there
InitRace ==
    /\ race_pc = [p \in RaceClients |-> "ready"]
    /\ race_date = [p \in RaceClients |-> FirstDate]
    /\ race_resp = [p \in RaceClients |-> None]
    /\ race_table = <<>>
    /\ race_lookups = [p \in RaceClients |-> 0]
    /\ race_calls = [d \in RaceDates |-> 0]
    /\ race_panic = [p \in RaceClients |-> "none"]
    /\ race_temp = [p \in RaceClients |-> None]

RaceOthers == <<cacheVars, rangeVars, regVars, seriesVars, providerVars, keyVars,
                meterVars, limitVars, graphVars>>

\* get_history(date) is entered: the comparison of the date with today
RaceBegin(p, date) ==
    /\ race_pc[p] = "ready"
    /\ race_lookups[p] < MaxRaceLookups
    /\ race_lookups' = [race_lookups EXCEPT ![p] = @ + 1]
    /\ race_date' = [race_date EXCEPT ![p] = date]
    /\ IF date - today >= 0
       THEN /\ race_pc' = [race_pc EXCEPT ![p] = "panic"]
            /\ race_panic' = [race_panic EXCEPT ![p] = "today"]
       ELSE /\ race_pc' = [race_pc EXCEPT ![p] = "read"]
            /\ UNCHANGED race_panic
    /\ UNCHANGED <<race_resp, race_table, race_calls, race_temp>>
    /\ UNCHANGED RaceOthers

\* the Temp of a response is returned, or [0] panics
RaceReturn(p, response) ==
    \E t \in {response_temp("open_meteo", response)} :
        IF t.panic
        THEN /\ race_pc' = [race_pc EXCEPT ![p] = "panic"]
             /\ race_panic' = [race_panic EXCEPT ![p] = "values"]
             /\ UNCHANGED race_temp
        ELSE /\ race_pc' = [race_pc EXCEPT ![p] = "ready"]
             /\ race_temp' = [race_temp EXCEPT ![p] = t.temp]
             /\ UNCHANGED race_panic

\* self.cache_db.read_data(date)
RaceRead(p) ==
    /\ race_pc[p] = "read"
    /\ \E cached \in {read_data(race_table, race_date[p])} :
           IF cached.panic
           THEN /\ race_pc' = [race_pc EXCEPT ![p] = "panic"]
                /\ race_panic' = [race_panic EXCEPT ![p] = "blob"]
                /\ UNCHANGED race_temp
           ELSE IF cached.some THEN RaceReturn(p, cached.response)
           ELSE /\ race_pc' = [race_pc EXCEPT ![p] = "fetch"]
                /\ UNCHANGED <<race_panic, race_temp>>
    /\ UNCHANGED <<race_date, race_resp, race_table, race_lookups, race_calls>>
    /\ UNCHANGED RaceOthers

\* self.get_from_api(date)
RaceFetch(p) ==
    /\ race_pc[p] = "fetch"
    /\ \E api \in {ApiFailure, [ok |-> TRUE, resp |-> RaceWeather(race_date[p])]} :
         \E live \in {get_from_api("open_meteo", 0, api)} :
             IF live.panic
             THEN /\ race_pc' = [race_pc EXCEPT ![p] = "panic"]
                  /\ race_panic' = [race_panic EXCEPT ![p] = "api"]
                  /\ UNCHANGED <<race_resp, race_calls>>
             ELSE /\ race_pc' = [race_pc EXCEPT ![p] = "write"]
                  /\ race_resp' = [race_resp EXCEPT ![p] = live.response]
                  /\ race_calls' = [race_calls EXCEPT ![race_date[p]] = @ + 1]
                  /\ UNCHANGED race_panic
    /\ UNCHANGED <<race_date, race_table, race_lookups, race_temp>>
    /\ UNCHANGED RaceOthers

\* self.cache_db.write_data(date, &response), then the Temp
RaceWrite(p) ==
    /\ race_pc[p] = "write"
    /\ \E w \in {write_data(race_table, race_date[p], race_resp[p])} :
           IF w.panic
           THEN /\ race_pc' = [race_pc EXCEPT ![p] = "panic"]
                /\ race_panic' = [race_panic EXCEPT ![p] = "conflict"]
                /\ UNCHANGED <<race_table, race_temp>>
           ELSE /\ race_table' = w.table
                /\ RaceReturn(p, race_resp[p])
    /\ UNCHANGED <<race_date, race_resp, race_lookups, race_calls>>
    /\ UNCHANGED RaceOthers

(***************************************************************************)
(* The specifications.                                                     *)
(***************************************************************************)
\* the temperature cache
Init ==
    /\ InitCache /\ IdleRange /\ IdleReg /\ IdleSeries /\ IdleProvider /\ IdleKey
    /\ IdleMeter /\ IdleLimit /\ IdleGraph /\ IdleRace

Next ==
    \/ \E date \in Dates : GetTemp(date)
    \/ \E date \in Dates : GetHistory(date)
    \/ \E name \in Selectors, from_date \in Dates, to_date \in Dates :
           GetAvgTemp(name, from_date, to_date)
    \/ AvgMap
    \/ AvgReturn
    \/ NewRun

Spec == Init /\ [][Next]_vars

IdleCache ==
    /\ weather = [c \in Clients |-> Archive(c, 0)]
    /\ today = FirstDate + MaxDate - 1
    /\ avg_call = NoAvgCall
    /\ cache_db = [c \in Clients |-> <<>>]
    /\ cache = <<>>
    /\ request_count = 0
    /\ status = "running"
    /\ runs = 1
    /\ apiCalls = [c \in Clients |-> NoCalls]
    /\ apiDone = [c \in Clients |-> NoCalls]
    /\ histCalls = NoCalls
    /\ returned = [d \in Dates |-> {}]
    /\ last = NoOp

\* date_range
RangeInit ==
    /\ IdleCache /\ InitRange /\ IdleReg /\ IdleSeries /\ IdleProvider /\ IdleKey
    /\ IdleMeter /\ IdleLimit /\ IdleGraph /\ IdleRace

RangeNext == DateRangePush \/ DateRangeReturn

RangeSpec == RangeInit /\ [][RangeNext]_vars

\* SimpleRegression
RegInit ==
    /\ IdleCache /\ IdleRange /\ IdleReg /\ IdleSeries /\ IdleProvider /\ IdleKey
    /\ IdleMeter /\ IdleLimit /\ IdleGraph /\ IdleRace

RegNext ==
    \/ \E x \in RegXs, y \in RegYs : AddData(x, y)
    \/ \E x \in RegXs : Predict(x)

RegSpec == RegInit /\ [][RegNext]_vars

\* calc_temp_series
SeriesInit ==
    /\ IdleCache /\ IdleRange /\ IdleReg /\ InitSeries /\ IdleProvider /\ IdleKey
    /\ IdleMeter /\ IdleLimit /\ IdleGraph /\ IdleRace

SeriesNext == CalcStart \/ NextMeasurement \/ LowerScan \/ UpperScan

SeriesSpec == SeriesInit /\ [][SeriesNext]_vars

\* calc_temp_series as a run that is not stopped from outside: a step that
\* can be taken is taken
seriesCtrl == <<series_pc, measurement, scan_i>>

\* calc_temp_series is at an instruction and goes on to another one; every
\* step of SeriesNext is such a step, and one is possible at every
\* instruction before the return and the panic
SeriesStep ==
    /\ series_pc \in {"start", "next", "lower", "upper"}
    /\ series_pc' \in {"next", "lower", "upper", "done", "panic"}
    /\ measurement' \in {measurement, measurement + 1}
    /\ scan_i' \in 0 .. Len(series_data)

SeriesFairSpec == SeriesSpec /\ WF_seriesCtrl(SeriesStep)

\* one client, one date
ProviderInit ==
    /\ IdleCache /\ IdleRange /\ IdleReg /\ IdleSeries /\ InitProvider /\ IdleKey
    /\ IdleMeter /\ IdleLimit /\ IdleGraph /\ IdleRace

ProviderNext ==
    \/ ProviderGetHistory
    \/ \E part \in {"gzip", "msgpack"} : DamageBlob(part)

ProviderSpec == ProviderInit /\ [][ProviderNext]_vars

\* a meter file
MeterInit ==
    /\ IdleCache /\ IdleRange /\ IdleReg /\ IdleSeries /\ IdleProvider /\ IdleKey
    /\ InitMeter /\ IdleLimit /\ IdleGraph /\ IdleRace

MeterNext == FromFile \/ CalcMeasurementSeries

MeterSpec == MeterInit /\ [][MeterNext]_vars

\* two clients, one store
RaceInit ==
    /\ IdleCache /\ IdleRange /\ IdleReg /\ IdleSeries /\ IdleProvider /\ IdleKey
    /\ IdleMeter /\ IdleLimit /\ IdleGraph /\ InitRace

RaceNext ==
    \/ \E p \in RaceClients, date \in RaceDates : RaceBegin(p, date)
    \/ \E p \in RaceClients : RaceRead(p)
    \/ \E p \in RaceClients : RaceFetch(p)
    \/ \E p \in RaceClients : RaceWrite(p)

RaceSpec == RaceInit /\ [][RaceNext]_vars

\* a DarkSky client up to its request limit
LimitInit ==
    /\ IdleCache /\ IdleRange /\ IdleReg /\ IdleSeries /\ IdleProvider /\ IdleKey
    /\ IdleMeter /\ InitLimit /\ IdleGraph /\ IdleRace

LimitNext == LimitGetHistoryNew \/ LimitGetHistoryStored

LimitSpec == LimitInit /\ [][LimitNext]_vars

\* graph_all up to calc_temp_series
GraphInit ==
    /\ InitGraphCache /\ IdleRange /\ IdleReg /\ IdleSeries /\ IdleProvider /\ IdleKey
    /\ IdleMeter /\ IdleLimit /\ InitGraph /\ IdleRace

GraphNext ==
    \/ GraphCollect
    \/ DateRangePush
    \/ DateRangeReturn
    \/ GraphGetTemp
    \/ GraphCalcTempSeries
    \/ CalcStart

GraphSpec == GraphInit /\ [][GraphNext]_vars

\* get_key
KeyInit ==
    /\ IdleCache /\ IdleRange /\ IdleReg /\ IdleSeries /\ IdleProvider /\ InitKey
    /\ IdleMeter /\ IdleLimit /\ IdleGraph /\ IdleRace

KeyNext == GetKey \/ KeyNextDay

KeySpec == KeyInit /\ [][KeyNext]_vars

(***************************************************************************)
(* Claims about the temperature cache.                                     *)
(***************************************************************************)
IsLookup(o) == o.op \in {"get_temp", "get_history"}

\* C1: within one TempDataManager, every get_temp of a date returns the same
\* result and client.get_history is invoked at most once for that date; a
\* get_temp that finds the date in its cache returns the cached value and
\* contacts nothing: no client call, no API call, no write to the store.
C1_GetTempIdempotent ==
    /\ [](\A d \in Dates : Cardinality(returned[d]) <= 1 /\ histCalls[d] <= 1)
    /\ [][(last'.op = "get_temp" /\ last'.date \in DOMAIN cache)
            => /\ ~last'.panic
               /\ last'.temp = cache[last'.date]
               /\ histCalls' = histCalls
               /\ apiCalls' = apiCalls
               /\ cache_db' = cache_db]_vars

\* a second get_temp of a date was answered from the manager's cache, after
\* the one client call that fetched it
C1_Witness ==
    /\ last.op = "get_temp" /\ last.hit /\ last.temp.some
    /\ histCalls[last.date] = 1
    /\ returned[last.date] = {last.temp}

\* C2 as stated: get_from_api is called at most once per date over the
\* lifetime of the cache store.
C2_AtMostOneCall == \A c \in Clients, d \in Dates : apiCalls[c][d] <= 1

\* C2, amended: get_from_api is called for a date only when the store holds no
\* row for it, also from a client created later over the same store; at most
\* one call per date returns a response, and its row is stored; a call that
\* aborts leaves no row and is made again by a later run.
C2_CallOnlyOnMiss ==
    /\ [](\A c \in Clients, d \in Dates :
            /\ apiDone[c][d] <= 1
            /\ apiDone[c][d] = 1 <=> get_key(d) \in DOMAIN cache_db[c])
    /\ [][\A c \in Clients, d \in Dates :
            apiCalls'[c][d] # apiCalls[c][d]
                => /\ ~(get_key(d) \in DOMAIN cache_db[c])
                   /\ apiCalls'[c][d] = apiCalls[c][d] + 1]_vars

\* a client of the second run was answered from the row the first run stored
C2_Witness ==
    /\ runs = 2 /\ IsLookup(last) /\ ~last.hit /\ ~last.panic /\ ~last.called
    /\ apiCalls[last.client][last.date] = 1

\* C3: no lookup changes or removes what is cached: a row of the store stays
\* as it was first written, and so does an entry of the manager's cache for
\* as long as the manager lives.
C3_WriteOnce ==
    [][/\ \A c \in Clients : \A k \in DOMAIN cache_db[c] :
            k \in DOMAIN cache_db'[c] /\ cache_db'[c][k] = cache_db[c][k]
       /\ IsLookup(last')
            => \A d \in DOMAIN cache : d \in DOMAIN cache' /\ cache'[d] = cache[d]]_vars

\* a lookup has just added a second row and a second entry
C3_Witness ==
    /\ last.op = "get_temp" /\ last.wrote
    /\ Cardinality(DOMAIN cache_db[last.client]) = 2
    /\ Cardinality(DOMAIN cache) = 2

\* the Temp a provider's archive gives for a date, None when it gives none
ProviderTemp(c, d) ==
    LET t == response_temp(c, weather[c][d])
    IN  IF t.panic THEN None ELSE t.temp

Providing(d) == {c \in Clients : ProviderTemp(c, d).some}

Least(S) == CHOOSE m \in S : \A x \in S : m <= x

Greatest(S) == CHOOSE m \in S : \A x \in S : m >= x

\* the least and the greatest of a set of floats
FLeast(S) == CHOOSE m \in S : \A x \in S : ~FLt(x, m)

FGreatest(S) == CHOOSE m \in S : \A x \in S : ~FLt(m, x)

RECURSIVE FSum(_)
FSum(S) == IF S = {} THEN Zero(1)
           ELSE LET x == CHOOSE y \in S : TRUE IN FAdd(F32, x, FSum(S \ {x}))

\* min of the mins, max of the maxes, unweighted mean of the means
Combined(d) ==
    Temp(FLeast({ProviderTemp(c, d).min : c \in Providing(d)}),
         FDiv(F32, FSum({ProviderTemp(c, d).mean : c \in Providing(d)}),
              FromInt(F32, Cardinality({ProviderTemp(c, d).mean : c \in Providing(d)}))),
         FGreatest({ProviderTemp(c, d).max : c \in Providing(d)}))

\* C9 as stated: when several providers hold a Temp for the date, get_temp
\* returns their combination.
C9_CombinesProviders ==
    (last.op = "get_temp" /\ ~last.panic /\ Cardinality(Providing(last.date)) > 1)
        => last.temp = Combined(last.date)

\* the temperatures of the hourly points of a DarkSky response
HourlyTemps(resp) ==
    {resp.data[j].v : j \in {i \in 1 .. Len(resp.data) : resp.data[i].some}}

HourlyCount(data) == Cardinality({i \in 1 .. Len(data) : data[i].some})

RECURSIVE TwoTo(_)
TwoTo(n) == IF n = 0 THEN 1 ELSE 2 * TwoTo(n - 1)

RECURSIVE BigInt(_)
BigInt(a) == IF a = <<>> THEN 0 ELSE a[1] + LimbBase * BigInt(Tail(a))

\* the integer a float holds, for a float that holds a small one
IntOf(a) == IF IsZero(a) THEN 0 ELSE a.s * BigInt(a.m) * TwoTo(a.e)

RECURSIVE HourlySum(_, _)
\* the sum of the hourly temperatures, in whole degrees
HourlySum(data, n) ==
    IF n = 0 THEN 0
    ELSE HourlySum(data, n - 1) + (IF data[n].some THEN IntOf(data[n].v) ELSE 0)

\* the f32 nearest to the mean of the hourly temperatures
HourlyMean(data) ==
    FDiv(F32, FromInt(F32, HourlySum(data, Len(data))), FromInt(F32, HourlyCount(data)))

\* C9, amended: get_temp asks the one client of the manager, a DarkSkyClient,
\* and returns the Temp of its response, whatever another provider holds for
\* the date: the least, the greatest and the unweighted mean (the nearest
\* f32 to it) of the hourly temperatures of the response, points without a
\* temperature left out, and None when no point has one.
C9_SingleProvider ==
    (last.op = "get_temp" /\ ~last.panic) =>
        LET resp == weather["darksky"][last.date]
        IN  /\ last.client = "darksky"
            /\ IF resp.present /\ HourlyTemps(resp) # {}
               THEN last.temp = Temp(FLeast(HourlyTemps(resp)),
                                     HourlyMean(resp.data),
                                     FGreatest(HourlyTemps(resp)))
               ELSE last.temp = None

\* DarkSky gave {10, 15, 20} while VisualCrossing holds {12, 17, 22} for the date
C9_Witness ==
    /\ last.op = "get_temp" /\ ~last.panic /\ last.client = "darksky"
    /\ last.temp = Temp(Deg(10), Deg(15), Deg(20))
    /\ ProviderTemp("visual_crossing", last.date) = Temp(Deg(12), Deg(17), Deg(22))

\* C10: a lookup of today's date or of a later one aborts the run: it returns
\* nothing, calls no API and writes nothing to either cache.
C10_TodayOrFutureAborts ==
    /\ []((IsLookup(last) /\ last.date >= last.now)
            => last.panic /\ ~last.called /\ ~last.wrote /\ status = "aborted")
    /\ [][(IsLookup(last') /\ last'.date >= today)
            => /\ status' = "aborted"
               /\ apiCalls' = apiCalls
               /\ cache_db' = cache_db
               /\ cache' = cache
               /\ returned' = returned]_vars

\* get_temp of today's date has aborted the run
C10_Witness ==
    /\ last.op = "get_temp" /\ last.date = today /\ last.panic
    /\ status = "aborted"

(***************************************************************************)
(* Claims about calc_temp_series.                                          *)
(***************************************************************************)
InputDates == [j \in 1 .. Len(series_data) |-> series_data[j].date]

\* C4: calc_temp_series returns one (date, value) pair per observation: for a
\* non-empty series and any width it does not panic, and on return dates and
\* amounts have the length of the input and dates holds the input dates in
\* the input order.
C4_OnePairPerObservation ==
    /\ Len(series_data) > 0 => series_pc # "panic"
    /\ series_pc = "done" =>
        /\ Len(dates) = Len(series_data)
        /\ Len(amounts) = Len(series_data)
        /\ dates = InputDates

C4_Witness ==
    /\ series_pc = "done"
    /\ num_days = 0
    /\ InputDates = <<FirstDate + 2, FirstDate, FirstDate + 2>>
    /\ dates = <<FirstDate + 2, FirstDate, FirstDate + 2>>
    /\ Len(amounts) = 3

SortedUnique ==
    \A j \in 1 .. Len(series_data) - 1 :
        series_data[j].date < series_data[j + 1].date

\* the positions of the series dated within floor(W/2) days before and
\* floor((W-1)/2) days after date
InInterval(date) ==
    {p \in 1 .. Len(series_data) :
        /\ date - (num_days \div 2) <= series_data[p].date
        /\ series_data[p].date <= date + ((num_days - 1) \div 2)}

\* C5: for a series sorted by date with unique dates and a width W >= 1, the
\* observations added to the regression of a target date are exactly those
\* dated in [d - floor(W/2), d + floor((W-1)/2)], each added once.
C5_WindowByCalendarDays ==
    (SortedUnique /\ num_days >= 1) =>
        \A j \in 1 .. Len(dates) :
            /\ {fed[j][t] : t \in 1 .. Len(fed[j])} = InInterval(dates[j])
            /\ Len(fed[j]) = Cardinality(InInterval(dates[j]))

C5_Witness ==
    /\ series_pc = "done"
    /\ num_days = 3
    /\ InputDates = <<FirstDate, FirstDate + 2, FirstDate + 3>>
    /\ fed = << <<1>>, <<2, 3>>, <<2, 3>> >>

(***************************************************************************)
(* Claims about SimpleRegression.                                          *)
(***************************************************************************)
RECURSIVE Sums(_)
\* the plain sums over the points added
Sums(ps) ==
    IF Len(ps) = 0 THEN [n |-> 0, x |-> 0, y |-> 0, xx |-> 0, xy |-> 0]
    ELSE LET r == Sums(Tail(ps))
             px == Head(ps)[1]
             py == Head(ps)[2]
         IN  [n |-> r.n + 1, x |-> r.x + px, y |-> r.y + py,
              xx |-> r.xx + px * px, xy |-> r.xy + px * py]

DistinctXs == {points[j][1] : j \in 1 .. Len(points)}

\* a fraction of two integers, of a denominator that is not zero
Fraction(n, d) == [n |-> n * Sign(d), d |-> Abs(d)]

\* the ordinary least squares line through the points, in closed form and in
\* exact arithmetic
OLSSlope ==
    LET t == Sums(points)
    IN  Fraction(t.n * t.xy - t.x * t.y, t.n * t.xx - t.x * t.x)

OLSIntercept ==
    LET t == Sums(points)
    IN  Fraction(t.y * t.xx - t.x * t.xy, t.n * t.xx - t.x * t.x)

\* | v * d - n |, v a finite float, as an integer scaled by 2^Scale(v)
Scale(v) == IF IsZero(v) \/ v.e >= 0 THEN 0 ELSE 0 - v.e

Residue(v, n, d) ==
    LET a == IF IsZero(v) THEN <<>>
             ELSE BigShl(BigMul(v.m, BigOf(d)), IF v.e > 0 THEN v.e ELSE 0)
        b == BigShl(BigOf(Abs(n)), Scale(v))
    IN  IF a = <<>> THEN b
        ELSE IF b = <<>> THEN a
        ELSE IF v.s # Sign(n) THEN BigAdd(a, b)
        ELSE IF BigLess(a, b) THEN BigSub(b, a)
        ELSE BigSub(a, b)

\* the floating-point tolerance: 2^-ToleranceBits (about 1e-12), relative to
\* 1 + |q|
ToleranceBits == 40

\* v is the fraction q within the tolerance:
\* |v - q| <= 2^-ToleranceBits * (1 + |q|)
Near(v, q) ==
    /\ IsNum(v)
    /\ ~BigLess(BigShl(BigOf(q.d + Abs(q.n)), Scale(v)),
                BigShl(Residue(v, q.n, q.d), ToleranceBits))

\* C6: once the points added hold two distinct x, get_slope and get_intercept
\* are, within the floating-point tolerance, the closed-form least squares
\* slope and intercept of the points, which do not depend on the order of the
\* points.
C6_IncrementalEqualsClosedForm ==
    Cardinality(DistinctXs) >= 2 =>
        /\ Near(get_slope(regression), OLSSlope)
        /\ Near(get_intercept(regression, get_slope(regression)), OLSIntercept)

\* the line through (0, 0), (2, 3), (1, 1) is y = 9/6 x - 1/6: the slope is
\* exact, the intercept is a double next to -1/6
C6_Witness ==
    /\ points = << <<0, 0>>, <<2, 3>>, <<1, 1>> >>
    /\ OLSSlope = Fraction(9, 6) /\ OLSIntercept = Fraction(-1, 6)
    /\ get_slope(regression) = FDiv(F64, Num(3), Num(2))
    /\ Near(get_intercept(regression, get_slope(regression)), Fraction(-1, 6))
    /\ ~IsZero(get_intercept(regression, get_slope(regression)))

\* C7: while the points added hold fewer than two distinct x, get_slope,
\* get_intercept and predict all give NaN.
C7_UndefinedBelowTwoXs ==
    Cardinality(DistinctXs) < 2 =>
        /\ IsNaN(get_slope(regression))
        /\ IsNaN(get_intercept(regression, get_slope(regression)))
        /\ \A x \in RegXs : IsNaN(predict(regression, Num(x)))
        /\ predicted.made => IsNaN(predicted.y)

C7_Witness ==
    /\ Len(points) = 2
    /\ points[1][1] = 1
    /\ points[2][1] = 1
    /\ points[1][2] # points[2][2]
    /\ predicted.made
    /\ IsNaN(predicted.y)

(***************************************************************************)
(* Claims about date_range.                                                *)
(***************************************************************************)
\* C8: date_range returns the dates d with start <= d < end in increasing
\* order, consecutive ones a day apart: end - start dates when end > start,
\* none when end <= start; from 2024-01-01 to 2024-01-04 it returns
\* 2024-01-01, 2024-01-02, 2024-01-03.
C8_DateRangeHalfOpen ==
    range_pc = "done" =>
        /\ {range_dates[j] : j \in 1 .. Len(range_dates)}
               = {d \in RangeDates : start_date <= d /\ d < end_date}
        /\ \A j \in 1 .. Len(range_dates) - 1 : range_dates[j + 1] = range_dates[j] + 1
        /\ Len(range_dates) = IF end_date > start_date THEN end_date - start_date ELSE 0
        /\ (start_date = FirstDate /\ end_date = FirstDate + 3) =>
               range_dates = <<FirstDate, FirstDate + 1, FirstDate + 2>>

C8_Witness ==
    /\ range_pc = "done"
    /\ start_date = FirstDate
    /\ end_date = FirstDate + 3
    /\ Len(range_dates) = 3

(***************************************************************************)
(* More claims about calc_temp_series.                                     *)
(***************************************************************************)
\* the dates of the observations added to the regression of the j-th output
FedDates(j) == {series_data[fed[j][t]].date : t \in 1 .. Len(fed[j])}

\* C11: an output whose regression received observations of fewer than two
\* distinct dates is still emitted, with NaN as its value: every window
\* processed has its entry, and on return there is one entry per observation.
C11_UndefinedPassedThrough ==
    /\ Len(amounts) = Len(dates)
    /\ series_pc = "done" => Len(amounts) = Len(series_data)
    /\ \A j \in 1 .. Len(amounts) :
           Cardinality(FedDates(j)) < 2 => IsNaN(amounts[j])

C11_Witness ==
    /\ series_pc = "done"
    /\ num_days = 3
    /\ InputDates = <<FirstDate, FirstDate + 2, FirstDate + 3>>
    /\ FedDates(1) = {FirstDate}
    /\ IsNaN(amounts[1])
    /\ IsNum(amounts[2])

Min(a, b) == IF a < b THEN a ELSE b

\* a series of consecutive days
Dense ==
    \A j \in 1 .. Len(series_data) - 1 :
        series_data[j + 1].date = series_data[j].date + 1

\* C12: on a series of n consecutive days and a width W >= 1, the regression
\* of the k-th date (0-based) receives min(k, floor(W/2)) +
\* min(n-1-k, floor((W-1)/2)) + 1 observations, which is W when the date is
\* floor(W/2) or more from the start and floor((W-1)/2) or more from the end.
C12_DenseWindowSize ==
    (Dense /\ num_days >= 1) =>
        \A j \in 1 .. Len(dates) :
            /\ Len(fed[j]) = Min(j - 1, num_days \div 2)
                             + Min(Len(series_data) - j, (num_days - 1) \div 2) + 1
            /\ (j - 1 >= num_days \div 2
                /\ Len(series_data) - j >= (num_days - 1) \div 2)
                   => Len(fed[j]) = num_days

C12_Witness ==
    /\ series_pc = "done"
    /\ Dense
    /\ Len(series_data) = 3
    /\ num_days = 3
    /\ Len(fed[1]) = 2
    /\ Len(fed[2]) = 3
    /\ Len(fed[3]) = 2

\* a series in date order (equal dates allowed)
Sorted ==
    \A j \in 1 .. Len(series_data) - 1 :
        series_data[j].date <= series_data[j + 1].date

\* after the first while loop of a measurement of a sorted series, lower_init
\* is the first index (0-based) dated at or after lower_bound
RestsOnFirstInWindow ==
    (Sorted /\ series_pc = "upper") =>
        /\ lower_init < Len(series_data)
        /\ series_data[lower_init + 1].date >= lower_bound
        /\ \A p \in 1 .. lower_init : series_data[p].date < lower_bound

\* C13: lower_init never decreases, whatever the order of the series, and
\* for a sorted series it rests after each lower scan on the first index
\* dated at or after the lower bound of the measurement.
C13_LowerCursorMonotone ==
    /\ []RestsOnFirstInWindow
    /\ [][lower_init' >= lower_init]_vars

C13_Witness ==
    /\ series_pc = "upper"
    /\ num_days = 2
    /\ InputDates = <<FirstDate, FirstDate + 1, FirstDate + 3>>
    /\ measurement = 3
    /\ lower_bound = FirstDate + 2
    /\ lower_init = 2

RECURSIVE WindowSums(_, _)
\* the plain sums over the observations at positions 1 .. p dated in the
\* window of date, x counted in days from date itself
WindowSums(date, p) ==
    IF p = 0 THEN [n |-> 0, x |-> 0, y |-> 0, xx |-> 0, xy |-> 0]
    ELSE LET r == WindowSums(date, p - 1)
             px == series_data[p].date - date
             py == IntOf(series_data[p].amount)
         IN  IF p \in InInterval(date)
             THEN [n |-> r.n + 1, x |-> r.x + px, y |-> r.y + py,
                   xx |-> r.xx + px * px, xy |-> r.xy + px * py]
             ELSE r

\* the f32 nearest to the value at date of the least squares line through the
\* observations in the window of date: a function of those observations alone
WindowFit(date) ==
    LET t == WindowSums(date, Len(series_data))
    IN  IF t.n * t.xx - t.x * t.x = 0 THEN NaN
        ELSE FDiv(F32, Num(t.y * t.xx - t.x * t.xy), Num(t.n * t.xx - t.x * t.x))

\* C14: for a sorted series with unique dates and a width W >= 1, the value
\* emitted for a date is the value of the least squares line through the
\* observations in the window of that date, so it depends on nothing else:
\* not on the other observations (base_date included) and not on the
\* windows processed before.
C14_ValueFromWindowOnly ==
    (SortedUnique /\ num_days >= 1) =>
        \A j \in 1 .. Len(amounts) : amounts[j] = WindowFit(dates[j])

C14_Witness ==
    /\ series_pc = "done"
    /\ num_days = 2
    /\ InputDates = <<FirstDate, FirstDate + 1, FirstDate + 2>>
    /\ fed = << <<1>>, <<1, 2>>, <<2, 3>> >>
    /\ amounts = <<NaN, FromInt(F32, 17), FromInt(F32, 38)>>

(***************************************************************************)
(* Claims about the clients.                                               *)
(***************************************************************************)
\* an NwsClient without a station: its get_history panics before any call
NoStation == provider = "nws" /\ provider_stations = <<>>

\* C15: when the live call fails (transport error, status other than 200,
\* body that does not parse), get_history panics: it returns nothing, no
\* 'no data' either, and writes no row.  For each of the four clients.
C15_ApiFailureAborts ==
    (provider_lookups >= 1 /\ ~provider_answer.ok /\ ~NoStation) =>
        /\ provider_lookup.called
        /\ ~provider_lookup.answered
        /\ provider_lookup.panic
        /\ provider_table = <<>>

C15_Witness ==
    /\ provider = "open_meteo"
    /\ ~provider_answer.ok
    /\ provider_lookups = 1
    /\ provider_lookup.called
    /\ provider_lookup.panic

\* the blob stored for the date does not gunzip or does not deserialize
BadBlob(table) ==
    /\ get_key(FirstDate) \in DOMAIN table
    /\ ~(table[get_key(FirstDate)].gzip /\ table[get_key(FirstDate)].msgpack)

\* a response whose data set for the date is empty
EmptyDataSet(resp) ==
    IF resp.client = "open_meteo"
    THEN /\ resp.data.temperature_2m_min = <<>>
         /\ resp.data.temperature_2m_max = <<>>
         /\ resp.data.temperature_2m_mean = <<>>
    ELSE ~resp.present \/ resp.data = <<>>

\* C16: when the API answers with an empty data set for the date, get_history
\* returns None and does not panic, for each of the four clients (the
\* response read live or back from an intact blob).
C16_EmptyIsNoData ==
    (/\ provider_lookups >= 1
     /\ provider_answer.ok
     /\ EmptyDataSet(provider_answer.resp)
     /\ ~BadBlob(provider_table)) =>
        /\ ~provider_lookup.panic
        /\ provider_lookup.temp = None

\* the clients for which it does hold: DarkSky, and NWS with a station
C16_EmptyIsNoDataDarkSkyNws ==
    (/\ provider_lookups >= 1
     /\ provider \in {"darksky", "nws"}
     /\ ~NoStation
     /\ provider_answer.ok
     /\ EmptyDataSet(provider_answer.resp)
     /\ ~BadBlob(provider_table)) =>
        /\ ~provider_lookup.panic
        /\ provider_lookup.temp = None

\* C17: a get_history that finds a blob it cannot gunzip or deserialize
\* panics, without calling the API and without touching the table.
C17_BadBlobAborts ==
    [][(provider_lookups' = provider_lookups + 1 /\ BadBlob(provider_table)) =>
          /\ provider_lookup'.panic
          /\ ~provider_lookup'.called
          /\ provider_table' = provider_table]_vars

C17_Witness ==
    /\ provider = "visual_crossing"
    /\ provider_lookups = 2
    /\ BadBlob(provider_table)
    /\ ~provider_table[get_key(FirstDate)].msgpack
    /\ provider_lookup.panic
    /\ ~provider_lookup.called

(***************************************************************************)
(* More claims about the temperature cache.                                *)
(***************************************************************************)
\* the last operation was a get_temp that returned None
ReturnedNoData == last.op = "get_temp" /\ ~last.panic /\ last.temp = None

\* a get_temp step for a date for which this manager returned None before
AsksAgainAfterNoData ==
    /\ last'.op = "get_temp"
    /\ histCalls[last'.date] > 0
    /\ None \in returned[last'.date]

\* C18 as stated: a None that get_temp returns is not kept in the manager's
\* cache, and a later get_temp for that date calls the provider's API again.
C18_NoDataNotCached ==
    /\ [](ReturnedNoData => ~(last.date \in DOMAIN cache))
    /\ [][AsksAgainAfterNoData =>
             apiCalls'[Client][last'.date] = apiCalls[Client][last'.date] + 1]_vars

\* C18 as the code has it: get_temp keeps the None in the manager's cache,
\* and a later get_temp for that date returns it from there: no client
\* lookup, no API call.
C18_NoDataCached ==
    /\ [](ReturnedNoData =>
             (last.date \in DOMAIN cache /\ cache[last.date] = None))
    /\ [][AsksAgainAfterNoData =>
             /\ last'.hit
             /\ ~last'.called
             /\ ~last'.panic
             /\ last'.temp = None
             /\ apiCalls' = apiCalls
             /\ cache_db' = cache_db]_vars

C18_Witness ==
    /\ ReturnedNoData
    /\ last.hit
    /\ ~last.called
    /\ histCalls[last.date] = 1
    /\ apiCalls[Client][last.date] = 1

(***************************************************************************)
(* Claims about get_key.                                                   *)
(***************************************************************************)
\* a is an earlier calendar date than b
CalendarBefore(a, b) ==
    \/ a.year < b.year
    \/ a.year = b.year /\ a.month < b.month
    \/ a.year = b.year /\ a.month = b.month /\ a.day < b.day

\* C19: get_key gives the number of whole days from 1970-01-01 to the date
\* (0 for 1970-01-01, one more for each following day); over the dates keyed,
\* the same date has the same key, different dates have different keys, an
\* earlier date has the smaller key, and the key of the day after a date is
\* the key of the date plus 1.
C19_KeyIsDayCount ==
    \A i, j \in 1 .. Len(key_walk) :
        /\ key_walk[i].date = key_walk[j].date <=> key_walk[i].key = key_walk[j].key
        /\ CalendarBefore(key_walk[i].date, key_walk[j].date)
               => key_walk[i].key < key_walk[j].key
        /\ key_walk[j].date = NextDay(key_walk[i].date)
               => key_walk[j].key = key_walk[i].key + 1
        /\ key_walk[i].date = CalendarDate(1970, 1, 1)
               => key_walk[j].key = j - i
        /\ key_walk[i].date = CalendarDate(2024, 1, 1) => key_walk[i].key = 19723

C19_Witness ==
    /\ Len(key_walk) >= 5
    /\ key_walk[1].date = CalendarDate(1969, 12, 29)
    /\ key_walk[1].key = -3
    /\ key_walk[4].date = CalendarDate(1970, 1, 1)
    /\ key_walk[4].key = 0
    /\ key_walk[5].key = 1

(***************************************************************************)
(* More claims about SimpleRegression.                                     *)
(***************************************************************************)
\* C20: with n >= 2 and sum_xx zero, get_slope returns NaN from its second
\* branch, the test on sum_xx, so that it does not evaluate sum_xy / sum_xx.
C20_GuardCatchesZeroSxx ==
    (regression.n >= 2 /\ IsZero(regression.sum_xx)) =>
        not_enough_variation(regression)

\* what the test does: it holds for no sum_xx, and with n >= 2 the slope is
\* always the quotient
C20_GuardNeverFires ==
    /\ ~not_enough_variation(regression)
    /\ regression.n >= 2 =>
           get_slope(regression) = FDiv(F64, regression.sum_xy, regression.sum_xx)

(***************************************************************************)
(* Claims about the rows of the cache store.                               *)
(***************************************************************************)
\* the live call of this step was made and did not return a response
ApiAborted ==
    \E c \in Clients, d \in Dates :
        apiCalls'[c][d] # apiCalls[c][d] /\ apiDone'[c][d] = apiDone[c][d]

\* C25: a row of a date exists only if a live fetch of the date returned a
\* response, and holds that response; a lookup whose get_from_api aborts
\* leaves every row as it was and writes none; a later lookup of a past date
\* that finds no row calls the API again.
C25_RowOnlyAfterFetch ==
    /\ [](\A c \in Clients, d \in Dates :
            get_key(d) \in DOMAIN cache_db[c]
                => /\ apiDone[c][d] >= 1
                   /\ cache_db[c][get_key(d)] = write_blob(weather[c][d]))
    /\ [][ApiAborted => (cache_db' = cache_db /\ status' = "aborted")]_vars
    /\ [][(/\ IsLookup(last') /\ ~last'.hit
           /\ last'.date < today
           /\ ~(get_key(last'.date) \in DOMAIN cache_db[Client]))
              => last'.called]_vars

\* the first run's fetch of a date aborted; the second run fetched the date
\* again and stored its row
C25_Witness ==
    /\ runs = 2 /\ IsLookup(last) /\ last.called /\ last.wrote
    /\ apiCalls[last.client][last.date] = 2
    /\ apiDone[last.client][last.date] = 1
    /\ get_key(last.date) \in DOMAIN cache_db[last.client]

(***************************************************************************)
(* Claims about the preconditions and the loops of calc_temp_series.       *)
(***************************************************************************)
\* C21: a window width of 0 is a fatal precondition violation: with
\* num_days = 0 calc_temp_series does not return and pushes no point of a
\* smoothed series.
C21_ZeroWidthAborts ==
    num_days = 0 => (series_pc # "done" /\ dates = <<>> /\ amounts = <<>>)

\* C23: for a non-empty series, sorted or not, and any width, while the
\* k-th observation is processed the cursor of the lower-bound scan is at
\* most at the k-th observation (scan_i counts from 0, measurement from 1),
\* so data[i] is read within the series and the scan does not panic.
C23_LowerCursorInRange ==
    series_pc = "lower" =>
        /\ scan_i <= measurement - 1
        /\ scan_i < Len(series_data)
        /\ lower_init <= scan_i

C23_Witness ==
    /\ series_pc = "lower"
    /\ num_days = 0
    /\ InputDates = <<FirstDate, FirstDate + 2, FirstDate + 1>>
    /\ measurement = 2
    /\ scan_i = 1

\* C24: calc_temp_series terminates on every non-empty series: it returns,
\* each of the two scans only moves its index forward and not past the end
\* of the series, and the for loop goes from one observation to the next, so
\* that each has got its one point on return.
C24_Terminates ==
    (series_pc = "start" /\ Len(series_data) > 0) ~>
        (/\ series_pc = "done"
         /\ measurement = Len(series_data) + 1
         /\ Len(dates) = Len(series_data)
         /\ scan_i <= Len(series_data))

C24_Witness ==
    /\ series_pc = "done"
    /\ num_days = 3
    /\ InputDates = <<FirstDate + 3, FirstDate, FirstDate + 3>>
    /\ Len(dates) = 3
    /\ measurement = 4
    /\ scan_i = 3

(***************************************************************************)
(* Claims about the meter files.                                           *)
(***************************************************************************)
StrictlyIncreasing(ds) == \A j \in 1 .. Len(ds) - 1 : ds[j] < ds[j + 1]

RecordDates == [j \in 1 .. Len(records) |-> records[j].date]

\* C22: the series from_file returns has strictly increasing dates: it is
\* sorted by date and no two readings share a date.
C22_StrictlyIncreasingDates ==
    meter_pc \in {"loaded", "plotted"} => StrictlyIncreasing(RecordDates)

\* what holds in its place: the dates do not decrease, and the readings are
\* those of the file, none dropped
C22_SortedAllRowsKept ==
    meter_pc \in {"loaded", "plotted"} =>
        /\ \A j \in 1 .. Len(records) - 1 : records[j].date <= records[j + 1].date
        /\ Len(records) = Len(file_rows)

(***************************************************************************)
(* Claims about two clients on one store.                                  *)
(***************************************************************************)
\* client p takes its write_data step
Writes(p) == race_pc[p] = "write" /\ race_pc'[p] # "write"

\* C26: the steps of get_history are not atomic per key.  Two clients that
\* both read the store before either has written the date both call the live
\* API; the write_data that comes second finds the key taken and panics,
\* leaving the table as it is.  A conflict comes about in this way only: the
\* date then has been fetched twice.
C26_LookupNotAtomic ==
    /\ [][\A p \in RaceClients :
            (Writes(p) /\ get_key(race_date[p]) \in DOMAIN race_table)
                => /\ race_pc'[p] = "panic"
                   /\ race_panic'[p] = "conflict"
                   /\ race_table' = race_table]_vars
    /\ [](\A p \in RaceClients :
            race_panic[p] = "conflict"
                => /\ race_calls[race_date[p]] >= 2
                   /\ get_key(race_date[p]) \in DOMAIN race_table
                   /\ race_table[get_key(race_date[p])] = write_blob(race_resp[p]))

\* both clients fetched FirstDate; client 1 stored it and returned its Temp,
\* client 2 panicked on the conflict
C26_Witness ==
    /\ race_date = [p \in RaceClients |-> FirstDate]
    /\ race_calls[FirstDate] = 2
    /\ race_pc[1] = "ready" /\ race_temp[1].some
    /\ race_pc[2] = "panic" /\ race_panic[2] = "conflict"

(***************************************************************************)
(* Claims about the request limit of DarkSkyClient.                        *)
(***************************************************************************)
\* get_from_api has panicked on its count
LimitReached ==
    limit_status = "aborted" /\ limit_last.called /\ limit_count >= RequestLimit

\* C27: a DarkSkyClient can make 1000 live requests: the panic on the count
\* comes only after 1000 requests have been sent, and a lookup answered from
\* the table does not count.
C27_ThousandRequests ==
    /\ [](LimitReached => limit_sent >= RequestLimit)
    /\ [][(limit_last' # limit_last /\ ~limit_last'.called)
            => (limit_count' = limit_count /\ limit_sent' = limit_sent)]_vars

\* what holds in its place: the panic comes with the 1000th request, after
\* 999 requests sent
C27_LimitAfter999 ==
    /\ LimitReached => (limit_sent = RequestLimit - 1 /\ limit_count = RequestLimit)
    /\ limit_sent <= RequestLimit - 1

\* v is the f32 quotient of the amount a by d days: an IEEE division by zero
\* for no days, the exact quotient where it is a whole number, and within one
\* part in 2^24 (the digits of an f32) of it otherwise
QuotientOf(v, a, d) ==
    IF d = 0 THEN v = (IF IntOf(a) = 0 THEN NaN ELSE Inf(Sign(IntOf(a))))
    ELSE /\ IsNum(v)
         /\ ~BigLess(BigShl(BigOf(Abs(IntOf(a))), Scale(v)),
                     BigShl(Residue(v, IntOf(a) * Sign(d), Abs(d)), F32.p))
         /\ (IntOf(a) % d = 0) => v = FromInt(F32, IntOf(a) \div d)

\* C30: calc_measurement_series on n readings sorted by date returns n - 1
\* points, none for n <= 1: the j-th point carries the date of reading j + 1
\* and its amount divided by the days from reading j to reading j + 1; the
\* first reading has no point.
C30_OnePointPerGap ==
    meter_pc = "plotted" =>
        /\ Len(plot_dates) = (IF Len(records) <= 1 THEN 0 ELSE Len(records) - 1)
        /\ Len(plot_amounts) = Len(plot_dates)
        /\ \A j \in 1 .. Len(plot_dates) :
               /\ plot_dates[j] = records[j + 1].date
               /\ QuotientOf(plot_amounts[j], records[j + 1].amount,
                             records[j + 1].date - records[j].date)

\* three readings, the last two of one day: 100 over three days, then 0 over
\* no day
C30_Witness ==
    /\ meter_pc = "plotted"
    /\ RecordDates = <<FirstDate + 28, FirstDate + 31, FirstDate + 31>>
    /\ records[2].amount = FromInt(F32, 100) /\ records[3].amount = Zero(1)
    /\ plot_dates = <<FirstDate + 31, FirstDate + 31>>
    /\ plot_amounts[1] = Finite(1, BigOf(8738133), -18)
    /\ plot_amounts[2] = NaN

(***************************************************************************)
(* Claims about graph_all.                                                 *)
(***************************************************************************)
\* the dates of all readings, electric and gas
ReadingDateSet ==
    {electric_data[j] : j \in 1 .. Len(electric_data)}
        \cup {gas_data[j] : j \in 1 .. Len(gas_data)}

\* the dates for which get_temp returned a Temp
WithData == {d \in Dates : \E t \in returned[d] : t.some}

SeriesDates == [j \in 1 .. Len(series_data) |-> series_data[j].date]

\* C28: the series graph_all hands to calc_temp_series holds exactly the
\* dates from the first measurement date up to, not including, the last for
\* which get_temp returned data, in strictly increasing order, each with the
\* maximum get_temp returned; get_temp was asked for each date of that range
\* and not for the last measurement date.
C28_DailySeriesDates ==
    graph_pc = "series" =>
        LET first == Least(ReadingDateSet)
            final == Greatest(ReadingDateSet)
        IN  /\ {SeriesDates[j] : j \in 1 .. Len(SeriesDates)}
                   = {d \in WithData : first <= d /\ d < final}
            /\ StrictlyIncreasing(SeriesDates)
            /\ \A j \in 1 .. Len(series_data) :
                   /\ series_data[j].date # final
                   /\ \A t \in returned[series_data[j].date] :
                          series_data[j].amount = t.max
            /\ \A d \in Dates : (returned[d] # {}) <=> (first <= d /\ d < final)

\* readings from FirstDate to FirstDate + 3: the series holds the two days of
\* the three before the last that have data
C28_Witness ==
    /\ graph_pc = "series"
    /\ ReadingDateSet = {FirstDate, FirstDate + 1, FirstDate + 3}
    /\ SeriesDates = <<FirstDate, FirstDate + 2>>
    /\ returned[FirstDate + 1] = {None}
    /\ returned[FirstDate + 3] = {}

\* no date from the first measurement date up to the last has a Temp
NoTemperatureData ==
    \A d \in Dates :
        (Least(ReadingDateSet) <= d /\ d < Greatest(ReadingDateSet))
            => \A t \in returned[d] : ~t.some

\* C29: calc_temp_series called with an empty series panics at the unwrap of
\* the minimum date, and with a non-empty one goes on; graph_all calls it
\* with an empty series whenever all measurement dates are one date or no
\* date of the range has temperature data.
C29_EmptySeriesAborts ==
    /\ series_pc \in {"next", "panic"} =>
           (series_pc = "panic" <=> series_data = <<>>)
    /\ graph_pc = "series" =>
           /\ (Cardinality(ReadingDateSet) = 1 \/ NoTemperatureData)
                  <=> series_data = <<>>
           /\ series_data = <<>> => series_pc \in {"start", "panic"}
           /\ series_pc = "panic" => (dates = <<>> /\ amounts = <<>>)

\* the readings are of two days, get_temp returned None for the one day of
\* the range, and calc_temp_series has panicked
C29_Witness ==
    /\ graph_pc = "series"
    /\ series_pc = "panic"
    /\ ReadingDateSet = {FirstDate, FirstDate + 1}
    /\ range_dates = <<FirstDate>>
    /\ returned[FirstDate] = {None}
====
